---------------------------- MODULE Spec2Model ----------------------------
(***************************************************************************)
(* Orbit motion and collision engine of arc_tracker.                       *)
(*                                                                         *)
(* Representation of the program's numbers:                                *)
(*  - positions are pairs <<x, y>> of integers (pixels);                   *)
(*  - a distance d is carried as its square (d >= m  <=>  d*d >= m*m for   *)
(*    the non-negative values compared in the code);                       *)
(*  - relative_angle theta is carried as the vector                        *)
(*    rotation_radius * (cos theta, sin theta);                            *)
(*  - DELTA_TIME is counted in units of the time a tracker on an           *)
(*    orbit of radius min_orbit_radius needs for a quarter turn, so an     *)
(*    angular displacement is a whole number of quarter turns; frames in   *)
(*    which a moving tracker would turn by another angle are not modelled; *)
(*  - angles of rotating obstacles are counted in quarter turns modulo 4.  *)
(***************************************************************************)
EXTENDS Integers, Sequences, FiniteSets, TLC

(* ------------------------- program constants -------------------------- *)
screen_width == 1920
screen_height == 1080
tracker_size == 30
min_orbit_radius == 150
rotation_speed == 360
coin_capture_distance == 20
goal_lock_distance == 10

(* ------------------------------ bounds -------------------------------- *)
\* largest DELTA_TIME of one frame, in quarter-turn times at min_orbit_radius
MaxDt == 2

(* ------------------------------ geometry ------------------------------ *)
\* distance(pos1, pos2), squared
DistSq(p, q) == (p[1] - q[1]) * (p[1] - q[1]) + (p[2] - q[2]) * (p[2] - q[2])

Abs(n) == IF n < 0 THEN -n ELSE n

Max0(n) == IF n < 0 THEN 0 ELSE n

\* the vector u turned by n quarter turns in the direction of growing theta
Rot(u, n) ==
    LET m == n % 4 IN
    IF m = 0 THEN u
    ELSE IF m = 1 THEN << -u[2], u[1] >>
    ELSE IF m = 2 THEN << -u[1], -u[2] >>
    ELSE << u[2], -u[1] >>

\* an angular speed that is the same on every orbit
AngularSpeed_fixed(radius_sq) ==
    [speed |-> rotation_speed, radius_sq |-> min_orbit_radius * min_orbit_radius]

\* rotation_speed / rotation_radius; a zero radius raises ZeroDivisionError
AngularSpeed(radius_sq) == [speed |-> rotation_speed, radius_sq |-> radius_sq]

ZeroSpeed == [speed |-> 0, radius_sq |-> 0]

\* rotation_angular_speed * DELTA_TIME in quarter turns: dt * min_orbit_radius / R
\* when that is a whole number, -1 when it is not
QuarterTurns(w, dt) ==
    IF w.speed = 0 \/ dt = 0 THEN 0
    ELSE LET n == dt * min_orbit_radius
             Q == { q \in 1..dt : n % q = 0 /\ (n \div q) * (n \div q) = w.radius_sq }
         IN IF Q = {} THEN -1 ELSE CHOOSE q \in Q : TRUE

(* ------------------------------ layouts ------------------------------- *)
\* Level(arctracker_pos_list, obstacle_list, coin_pos_list, goal_pos_list,
\*       par, arctracker_clone_list)
level_dict ==
    << [ arctracker_pos_list |-> << <<135, 540>> >>,
         arctracker_clone_list |-> << [pos |-> <<735, 540>>, id |-> 1, opposite |-> FALSE] >>,
         obstacle_list |-> << [ kind |-> "StaticCircularObstacle",
                                center |-> <<885, 390>>, radius |-> 50 ] >>,
         coin_pos_list |-> { <<585, 390>> },
         goal_pos_list |-> << <<135, 240>>, <<585, 390>> >> ],
       [ arctracker_pos_list |-> << <<135, 690>> >>,
         arctracker_clone_list |-> << >>,
         obstacle_list |-> << [ kind |-> "RotatingRectangularObstacle",
                                size |-> <<20, 20>>, rotation_axis |-> <<135, 390>>,
                                angular_speed |-> 1, initial_angle |-> 1,
                                rotation_radius |-> 300 ] >>,
         coin_pos_list |-> { <<135, 700>> },
         goal_pos_list |-> << <<435, 390>> >> ],
       [ arctracker_pos_list |-> << <<135, 690>> >>,
         arctracker_clone_list |-> << >>,
         obstacle_list |-> << [ kind |-> "RotatingRectangularObstacle",
                                size |-> <<20, 20>>, rotation_axis |-> <<135, 390>>,
                                angular_speed |-> 1, initial_angle |-> 1,
                                rotation_radius |-> 300 ] >>,
         coin_pos_list |-> { },
         goal_pos_list |-> << <<135, 695>>, <<135, 699>> >> ],
       [ arctracker_pos_list |-> << <<135, 540>> >>,
         arctracker_clone_list |-> << [pos |-> <<735, 540>>, id |-> 1, opposite |-> TRUE] >>,
         obstacle_list |-> << [ kind |-> "StaticCircularObstacle",
                                center |-> <<885, 390>>, radius |-> 50 ] >>,
         coin_pos_list |-> { <<585, 390>> },
         goal_pos_list |-> << <<135, 240>>, <<585, 390>> >> ],
       [ arctracker_pos_list |-> << <<135, 540>> >>,
         arctracker_clone_list |-> << >>,
         obstacle_list |-> << [ kind |-> "AngleFollowerImageObstacle",
                                size |-> <<20, 200>>, axis_pos |-> <<135, 240>>,
                                at_index |-> 0 ] >>,
         coin_pos_list |-> { },
         goal_pos_list |-> << <<285, 390>> >> ],
       [ arctracker_pos_list |-> << <<135, 540>>, <<285, 390>> >>,
         arctracker_clone_list |-> << >>,
         obstacle_list |-> << >>,
         coin_pos_list |-> { },
         goal_pos_list |-> << <<135, 240>> >> ],
       [ arctracker_pos_list |-> << <<135, 540>> >>,
         arctracker_clone_list |-> << >>,
         obstacle_list |-> << >>,
         coin_pos_list |-> { },
         goal_pos_list |-> << <<135, 240>> >> ] >>

\* the layouts each specification plays: the plain game, the layouts with a
\* clone (same and opposite direction), the layout with an obstacle that
\* follows the tracker's angle, the layouts whose goals and trackers differ
\* in number, the layouts left by the NEXT LEVEL button (the last one too)
MainLevels == { 1, 2, 3 }

CloneLevels == { 1, 4 }

FollowerLevels == { 5 }

GoalLevels == { 3, 6 }

NextLevels == { 5, 7 }

\* cursor positions the mouse snapshot is drawn from
CursorSet == { <<135, 390>>, <<135, 590>> }

(* ------------------------------ trackers ------------------------------ *)
\* ArcTracker.__init__ / ArcTrackerClone.__init__ (host = 0 for an ArcTracker)
NewTracker(pos, host, opposite) ==
    [ state |-> "idle", initial_pos |-> pos, x_pos |-> pos[1], y_pos |-> pos[2],
      rect |-> pos, rotation_axis |-> <<0, 0>>, rotation_radius_sq |-> 0,
      rotation_angular_speed |-> ZeroSpeed, relative_angle |-> <<0, 0>>,
      direction_factor |-> 1, angular_speed_per_frame |-> 0,
      path |-> FALSE, borderline |-> FALSE, axis_marker |-> FALSE,
      mouse_pressed |-> FALSE, raise_popup |-> FALSE, level_complete |-> FALSE,
      host |-> host, move_opposite_direction |-> opposite, new_axis |-> <<0, 0>>,
      error |-> FALSE ]

\* an initialize that leaves level_complete as it is
TrackerInitialize_keeplock(a) ==
    [ a EXCEPT !.path = FALSE, !.borderline = FALSE, !.axis_marker = FALSE,
               !.state = "idle", !.x_pos = a.initial_pos[1], !.y_pos = a.initial_pos[2],
               !.rect = a.initial_pos,
               !.mouse_pressed = FALSE, !.raise_popup = FALSE ]

\* ArcTracker.initialize / ArcTrackerClone.initialize
TrackerInitialize(a) ==
    [ a EXCEPT !.path = FALSE, !.borderline = FALSE, !.axis_marker = FALSE,
               !.state = "idle", !.x_pos = a.initial_pos[1], !.y_pos = a.initial_pos[2],
               !.rect = a.initial_pos,
               !.mouse_pressed = FALSE, !.raise_popup = FALSE, !.level_complete = FALSE ]

\* a reject_path that kills the path and leaves the state
reject_path_pathonly(a) == [ a EXCEPT !.path = FALSE ]

\* ArcTracker.reject_path / ArcTrackerClone.reject_path
reject_path(a) == [ a EXCEPT !.path = FALSE, !.state = "idle" ]

(* --------------------------- ArcTracker.update ------------------------- *)
\* a release that accepts a radius only when it exceeds the minimum
IdleRelease_strict(a) ==
    LET b == [ a EXCEPT !.error = a.error \/ ~a.borderline \/ ~a.axis_marker,
                        !.borderline = FALSE, !.axis_marker = FALSE,
                        !.mouse_pressed = FALSE,
                        !.rotation_radius_sq = DistSq(<<a.x_pos, a.y_pos>>, a.rotation_axis) ]
    IN IF b.rotation_radius_sq > min_orbit_radius * min_orbit_radius
       THEN [ b EXCEPT !.state = "ready" ]
       ELSE reject_path([ b EXCEPT !.raise_popup = TRUE ])

\* a release that accepts every radius
IdleRelease_nominimum(a) ==
    [ a EXCEPT !.error = a.error \/ ~a.borderline \/ ~a.axis_marker,
               !.borderline = FALSE, !.axis_marker = FALSE,
               !.mouse_pressed = FALSE, !.state = "ready",
               !.rotation_radius_sq = DistSq(<<a.x_pos, a.y_pos>>, a.rotation_axis) ]

\* the Idle branch of update once the axis of this frame is known (the cursor for
\* an ArcTracker, new_axis for an ArcTrackerClone); self.borderline.kill() and
\* self.axis_marker.kill() raise AttributeError on a missing object
IdleRelease(a) ==
    LET b == [ a EXCEPT !.error = a.error \/ ~a.borderline \/ ~a.axis_marker,
                        !.borderline = FALSE, !.axis_marker = FALSE,
                        !.mouse_pressed = FALSE,
                        !.rotation_radius_sq = DistSq(<<a.x_pos, a.y_pos>>, a.rotation_axis) ]
    IN IF b.rotation_radius_sq >= min_orbit_radius * min_orbit_radius
       THEN [ b EXCEPT !.state = "ready" ]
       ELSE reject_path([ b EXCEPT !.raise_popup = TRUE ])

\* a drag that carries the tracker along with the axis
IdleUpdate_carried(a, axis, mouse_state) ==
    LET a1 == IF ~a.mouse_pressed /\ mouse_state.LCLICK
              THEN [ a EXCEPT !.mouse_pressed = TRUE, !.path = TRUE,
                              !.borderline = TRUE, !.axis_marker = TRUE ]
              ELSE a
    IN IF a1.mouse_pressed
       THEN LET a2 == [ a1 EXCEPT !.rotation_axis = axis,
                                  !.x_pos = axis[1] + min_orbit_radius, !.y_pos = axis[2] ]
            IN IF ~mouse_state.LCLICK THEN IdleRelease(a2) ELSE a2
       ELSE a1

IdleUpdate(a, axis, mouse_state) ==
    LET a1 == IF ~a.mouse_pressed /\ mouse_state.LCLICK
              THEN [ a EXCEPT !.mouse_pressed = TRUE, !.path = TRUE,
                              !.borderline = TRUE, !.axis_marker = TRUE ]
              ELSE a
    IN IF a1.mouse_pressed
       THEN LET a2 == [ a1 EXCEPT !.rotation_axis = axis ]
            IN IF ~mouse_state.LCLICK THEN IdleRelease(a2) ELSE a2
       ELSE a1

\* a commit with the signs of the two buttons exchanged
CommitDirection_swapped(a, mouse_state) ==
    IF ~a.move_opposite_direction
    THEN (IF mouse_state.LCLICK THEN 1 ELSE -1)
    ELSE (IF mouse_state.LCLICK THEN -1 ELSE 1)

\* a commit in which a clone takes its host's sign whatever its
\* move_opposite_direction
CommitDirection_ashost(a, mouse_state) ==
    IF mouse_state.LCLICK THEN -1 ELSE 1

\* direction_factor fixed at the commit in Ready
CommitDirection(a, mouse_state) ==
    IF ~a.move_opposite_direction
    THEN (IF mouse_state.LCLICK THEN -1 ELSE 1)
    ELSE (IF mouse_state.LCLICK THEN 1 ELSE -1)

\* a commit that takes both buttons pressed together as a choice
ReadyUpdate_either(a, mouse_state, key_state) ==
    LET any == mouse_state.LCLICK \/ mouse_state.RCLICK
        a1 == IF ~a.mouse_pressed /\ (mouse_state.LCLICK \/ mouse_state.RCLICK)
              THEN LET r == DistSq(<<a.x_pos, a.y_pos>>, a.rotation_axis)
                   IN [ a EXCEPT !.mouse_pressed = TRUE,
                                 !.rotation_radius_sq = r,
                                 !.error = a.error \/ r = 0,
                                 !.rotation_angular_speed = AngularSpeed(r),
                                 !.relative_angle = << a.x_pos - a.rotation_axis[1],
                                                       a.y_pos - a.rotation_axis[2] >>,
                                 !.direction_factor = CommitDirection(a, mouse_state) ]
              ELSE a
        a2 == IF a1.mouse_pressed /\ ~any
              THEN [ a1 EXCEPT !.mouse_pressed = FALSE, !.state = "Moving" ]
              ELSE a1
    IN IF key_state.cancel /\ ~any
       THEN [ a2 EXCEPT !.error = a2.error \/ ~a2.path, !.path = FALSE, !.state = "idle" ]
       ELSE a2

\* a start of the move on the release of the committed button alone
ReadyUpdate_ownrelease(a, mouse_state, key_state) ==
    LET any == mouse_state.LCLICK \/ mouse_state.RCLICK
        a1 == IF ~a.mouse_pressed /\ (mouse_state.LCLICK # mouse_state.RCLICK)
              THEN LET r == DistSq(<<a.x_pos, a.y_pos>>, a.rotation_axis)
                   IN [ a EXCEPT !.mouse_pressed = TRUE,
                                 !.rotation_radius_sq = r,
                                 !.error = a.error \/ r = 0,
                                 !.rotation_angular_speed = AngularSpeed(r),
                                 !.relative_angle = << a.x_pos - a.rotation_axis[1],
                                                       a.y_pos - a.rotation_axis[2] >>,
                                 !.direction_factor = CommitDirection(a, mouse_state) ]
              ELSE a
        a2 == IF a1.mouse_pressed /\ ~(IF (a1.direction_factor = -1) # a1.move_opposite_direction
                                     THEN mouse_state.LCLICK ELSE mouse_state.RCLICK)
              THEN [ a1 EXCEPT !.mouse_pressed = FALSE, !.state = "Moving" ]
              ELSE a1
    IN IF key_state.cancel /\ ~any
       THEN [ a2 EXCEPT !.error = a2.error \/ ~a2.path, !.path = FALSE, !.state = "idle" ]
       ELSE a2

\* a cancel that does not wait for the buttons to be up
ReadyUpdate_cancelheld(a, mouse_state, key_state) ==
    LET any == mouse_state.LCLICK \/ mouse_state.RCLICK
        a1 == IF ~a.mouse_pressed /\ (mouse_state.LCLICK # mouse_state.RCLICK)
              THEN LET r == DistSq(<<a.x_pos, a.y_pos>>, a.rotation_axis)
                   IN [ a EXCEPT !.mouse_pressed = TRUE,
                                 !.rotation_radius_sq = r,
                                 !.error = a.error \/ r = 0,
                                 !.rotation_angular_speed = AngularSpeed(r),
                                 !.relative_angle = << a.x_pos - a.rotation_axis[1],
                                                       a.y_pos - a.rotation_axis[2] >>,
                                 !.direction_factor = CommitDirection(a, mouse_state) ]
              ELSE a
        a2 == IF a1.mouse_pressed /\ ~any
              THEN [ a1 EXCEPT !.mouse_pressed = FALSE, !.state = "Moving" ]
              ELSE a1
    IN IF key_state.cancel
       THEN [ a2 EXCEPT !.error = a2.error \/ ~a2.path, !.path = FALSE, !.state = "idle" ]
       ELSE a2

ReadyUpdate(a, mouse_state, key_state) ==
    LET any == mouse_state.LCLICK \/ mouse_state.RCLICK
        a1 == IF ~a.mouse_pressed /\ (mouse_state.LCLICK # mouse_state.RCLICK)
              THEN LET r == DistSq(<<a.x_pos, a.y_pos>>, a.rotation_axis)
                   IN [ a EXCEPT !.mouse_pressed = TRUE,
                                 !.rotation_radius_sq = r,
                                 !.error = a.error \/ r = 0,
                                 !.rotation_angular_speed = AngularSpeed(r),
                                 !.relative_angle = << a.x_pos - a.rotation_axis[1],
                                                       a.y_pos - a.rotation_axis[2] >>,
                                 !.direction_factor = CommitDirection(a, mouse_state) ]
              ELSE a
        a2 == IF a1.mouse_pressed /\ ~any
              THEN [ a1 EXCEPT !.mouse_pressed = FALSE, !.state = "Moving" ]
              ELSE a1
    IN IF key_state.cancel /\ ~any
       THEN [ a2 EXCEPT !.error = a2.error \/ ~a2.path, !.path = FALSE, !.state = "idle" ]
       ELSE a2

\* an integration step that takes the y of the orbit from the axis' x
MovingUpdate_axisindex(a, mouse_state, dt) ==
    LET q  == a.direction_factor * QuarterTurns(a.rotation_angular_speed, dt)
        u  == Rot(a.relative_angle, q)
        a1 == [ a EXCEPT !.angular_speed_per_frame = q,
                         !.relative_angle = u,
                         !.x_pos = a.rotation_axis[1] + u[1],
                         !.y_pos = a.rotation_axis[1] + u[2] ]
        a2 == IF ~a1.mouse_pressed /\ mouse_state.LCLICK
              THEN [ a1 EXCEPT !.rotation_angular_speed = ZeroSpeed,
                               !.mouse_pressed = TRUE,
                               !.error = a1.error \/ ~a1.path, !.path = FALSE ]
              ELSE a1
    IN IF a2.mouse_pressed /\ ~mouse_state.LCLICK
       THEN [ a2 EXCEPT !.mouse_pressed = FALSE, !.state = "idle" ]
       ELSE a2

\* a stop that takes a press of either button
MovingUpdate_anybutton(a, mouse_state, dt) ==
    LET q  == a.direction_factor * QuarterTurns(a.rotation_angular_speed, dt)
        u  == Rot(a.relative_angle, q)
        any == mouse_state.LCLICK \/ mouse_state.RCLICK
        a1 == [ a EXCEPT !.angular_speed_per_frame = q,
                         !.relative_angle = u,
                         !.x_pos = a.rotation_axis[1] + u[1],
                         !.y_pos = a.rotation_axis[2] + u[2] ]
        a2 == IF ~a1.mouse_pressed /\ any
              THEN [ a1 EXCEPT !.rotation_angular_speed = ZeroSpeed,
                               !.mouse_pressed = TRUE,
                               !.error = a1.error \/ ~a1.path, !.path = FALSE ]
              ELSE a1
    IN IF a2.mouse_pressed /\ ~any
       THEN [ a2 EXCEPT !.mouse_pressed = FALSE, !.state = "idle" ]
       ELSE a2

\* a stop press that leaves the path in place
MovingUpdate_keeppath(a, mouse_state, dt) ==
    LET q  == a.direction_factor * QuarterTurns(a.rotation_angular_speed, dt)
        u  == Rot(a.relative_angle, q)
        a1 == [ a EXCEPT !.angular_speed_per_frame = q,
                         !.relative_angle = u,
                         !.x_pos = a.rotation_axis[1] + u[1],
                         !.y_pos = a.rotation_axis[2] + u[2] ]
        a2 == IF ~a1.mouse_pressed /\ mouse_state.LCLICK
              THEN [ a1 EXCEPT !.rotation_angular_speed = ZeroSpeed,
                               !.mouse_pressed = TRUE ]
              ELSE a1
    IN IF a2.mouse_pressed /\ ~mouse_state.LCLICK
       THEN [ a2 EXCEPT !.mouse_pressed = FALSE, !.state = "idle" ]
       ELSE a2

MovingUpdate(a, mouse_state, dt) ==
    LET q  == a.direction_factor * QuarterTurns(a.rotation_angular_speed, dt)
        u  == Rot(a.relative_angle, q)
        a1 == [ a EXCEPT !.angular_speed_per_frame = q,
                         !.relative_angle = u,
                         !.x_pos = a.rotation_axis[1] + u[1],
                         !.y_pos = a.rotation_axis[2] + u[2] ]
        a2 == IF ~a1.mouse_pressed /\ mouse_state.LCLICK
              THEN [ a1 EXCEPT !.rotation_angular_speed = ZeroSpeed,
                               !.mouse_pressed = TRUE,
                               !.error = a1.error \/ ~a1.path, !.path = FALSE ]
              ELSE a1
    IN IF a2.mouse_pressed /\ ~mouse_state.LCLICK
       THEN [ a2 EXCEPT !.mouse_pressed = FALSE, !.state = "idle" ]
       ELSE a2

\* self.rect.centerx = round(self.x_pos); self.rect.centery = round(self.y_pos)
\* (x_pos and y_pos are whole numbers here, which round leaves as they are)
SyncRect(a) == [ a EXCEPT !.rect = << a.x_pos, a.y_pos >> ]

\* an update that goes on reading the input of a complete tracker
ArcTrackerUpdate_nolock(a, mouse_state, key_state, dt) ==
    LET a0 == [ a EXCEPT !.angular_speed_per_frame = 0 ]
    IN SyncRect(IF a0.state = "idle" THEN IdleUpdate(a0, mouse_state.CURPOS, mouse_state)
                ELSE IF a0.state = "ready" THEN ReadyUpdate(a0, mouse_state, key_state)
                ELSE MovingUpdate(a0, mouse_state, dt))

ArcTrackerUpdate(a, mouse_state, key_state, dt) ==
    IF ~a.level_complete
    THEN LET a0 == [ a EXCEPT !.angular_speed_per_frame = 0 ]
         IN SyncRect(IF a0.state = "idle" THEN IdleUpdate(a0, mouse_state.CURPOS, mouse_state)
                     ELSE IF a0.state = "ready" THEN ReadyUpdate(a0, mouse_state, key_state)
                     ELSE MovingUpdate(a0, mouse_state, dt))
    ELSE [ a EXCEPT !.angular_speed_per_frame = 0 ]

(* ------------------------ ArcTrackerClone.update ----------------------- *)
\* new_axis computed on the frame the drag starts
CloneDragAxis(a, host_rect, mouse_state) ==
    << a.rect[1] + (mouse_state.CURPOS[1] - host_rect[1]),
       a.rect[1] + (mouse_state.CURPOS[2] - host_rect[2]) >>

\* new_axis computed at the end of every Idle frame
CloneNewAxis(a, host_rect, mouse_state) ==
    << a.rect[1] + (mouse_state.CURPOS[1] - host_rect[1]),
       a.rect[2] + (mouse_state.CURPOS[2] - host_rect[2]) >>

CloneIdleUpdate(a, host_rect, mouse_state) ==
    LET a1 == IF ~a.mouse_pressed /\ mouse_state.LCLICK
              THEN [ a EXCEPT !.new_axis = CloneDragAxis(a, host_rect, mouse_state) ]
              ELSE a
        a2 == IdleUpdate(a1, a1.new_axis, mouse_state)
    IN [ a2 EXCEPT !.new_axis = CloneNewAxis(a2, host_rect, mouse_state) ]

ArcTrackerCloneUpdate(a, host_rect, mouse_state, key_state, dt) ==
    IF ~a.level_complete
    THEN LET a0 == [ a EXCEPT !.angular_speed_per_frame = 0 ]
         IN SyncRect(IF a0.state = "idle" THEN CloneIdleUpdate(a0, host_rect, mouse_state)
                     ELSE IF a0.state = "ready" THEN ReadyUpdate(a0, mouse_state, key_state)
                     ELSE MovingUpdate(a0, mouse_state, dt))
    ELSE [ a EXCEPT !.angular_speed_per_frame = 0 ]


(* ------------------------------ obstacles ------------------------------ *)
\* Obstacle state: current_angle, and shown_angle, the angle at which image, mask
\* and rect were last rebuilt (__init__ and update rebuild them, initialize does not)
NewObstacle(o) ==
    IF o.kind = "RotatingRectangularObstacle"
    THEN [ current_angle |-> o.initial_angle, shown_angle |-> o.initial_angle ]
    ELSE [ current_angle |-> 0, shown_angle |-> 0 ]

\* an initialize that turns the obstacle by initial_angle from where it is
ObstacleInitialize_relative(o, s) ==
    IF o.kind = "RotatingRectangularObstacle"
    THEN [ s EXCEPT !.current_angle = (s.current_angle + o.initial_angle) % 4 ]
    ELSE s

\* an initialize that also rebuilds image, mask and rect at the angle it sets
ObstacleInitialize_rebuilt(o, s) ==
    IF o.kind = "RotatingRectangularObstacle"
    THEN [ current_angle |-> o.initial_angle, shown_angle |-> o.initial_angle ]
    ELSE IF o.kind = "AngleFollowerImageObstacle"
    THEN [ current_angle |-> 0, shown_angle |-> 0 ]
    ELSE s

\* Obstacle.initialize and its overrides
ObstacleInitialize(o, s) ==
    IF o.kind = "RotatingRectangularObstacle"
    THEN [ s EXCEPT !.current_angle = o.initial_angle ]
    ELSE IF o.kind = "AngleFollowerImageObstacle"
    THEN [ s EXCEPT !.current_angle = 0 ]
    ELSE s

\* an AngleFollowerImageObstacle that turns with the tracker, not against it
ObstacleUpdate_added(o, s, dt, arctracker_list) ==
    IF o.kind = "RotatingRectangularObstacle"
    THEN LET n == (s.current_angle + o.angular_speed * dt) % 4
         IN [ current_angle |-> n, shown_angle |-> n ]
    ELSE IF o.kind = "AngleFollowerImageObstacle"
    THEN LET n == (s.current_angle
                     + arctracker_list[o.at_index + 1].angular_speed_per_frame) % 4
         IN [ current_angle |-> n, shown_angle |-> n ]
    ELSE s

\* Obstacle.update and its overrides (arctracker_list: the ArcTrackers of the
\* level, already updated in this call; angles are kept modulo a full turn)
ObstacleUpdate(o, s, dt, arctracker_list) ==
    IF o.kind = "RotatingRectangularObstacle"
    THEN LET n == (s.current_angle + o.angular_speed * dt) % 4
         IN [ current_angle |-> n, shown_angle |-> n ]
    ELSE IF o.kind = "AngleFollowerImageObstacle"
    THEN LET n == (s.current_angle
                     - arctracker_list[o.at_index + 1].angular_speed_per_frame) % 4
         IN [ current_angle |-> n, shown_angle |-> n ]
    ELSE s

\* rect.center of a RotatingRectangularObstacle:
\* axis + radius * (cos(current_angle), -sin(current_angle))
RotatingCenter(o, s) ==
    LET v == Rot(<< o.rotation_radius, 0 >>, s.shown_angle)
    IN << o.rotation_axis[1] + v[1], o.rotation_axis[2] - v[2] >>

\* pygame.sprite.collide_mask of a filled w x h rectangle centred at c with the
\* tracker's disc: the disc reaches the nearest point of the rectangle
MaskCollided(c, size, a) ==
    LET dx == Max0(2 * Abs(a.rect[1] - c[1]) - size[1])
        dy == Max0(2 * Abs(a.rect[2] - c[2]) - size[2])
    IN dx * dx + dy * dy < tracker_size * tracker_size

\* the size of a filled w x h image turned by n quarter turns
TurnedSize(size, n) == IF n % 2 = 0 THEN size ELSE << size[2], size[1] >>

\* a circle test that takes two circles that touch as colliding
collided_touching(o, s, a) ==
    IF o.kind = "StaticCircularObstacle"
    THEN DistSq(o.center, a.rect)
           <= (o.radius + tracker_size \div 2) * (o.radius + tracker_size \div 2)
    ELSE IF o.kind = "AngleFollowerImageObstacle"
    THEN MaskCollided(o.axis_pos, TurnedSize(o.size, s.shown_angle), a)
    ELSE MaskCollided(RotatingCenter(o, s), o.size, a)

\* Obstacle.collided and StaticCircularObstacle.collided
collided(o, s, a) ==
    IF o.kind = "StaticCircularObstacle"
    THEN DistSq(o.center, a.rect)
           < (o.radius + tracker_size \div 2) * (o.radius + tracker_size \div 2)
    ELSE IF o.kind = "AngleFollowerImageObstacle"
    THEN MaskCollided(o.axis_pos, TurnedSize(o.size, s.shown_angle), a)
    ELSE MaskCollided(RotatingCenter(o, s), o.size, a)

\* collide_with_circle of main.py: sprite (rect.center, rect.w) against the
\* circular sprites (center, radius) of circgroup
collide_with_circle(sprite, circgroup) ==
    IF circgroup = {} THEN FALSE
    ELSE \E spr \in circgroup :
            DistSq(sprite.rect, spr.center)
              < (spr.radius + sprite.w \div 2) * (spr.radius + sprite.w \div 2)

\* the inner function collided of collide_with_rect: the circle of the sprite
\* (rect.center, radius rect.w // 2) against one rectangular sprite
\* (center, w, h); the corner branch measures to the centre of the rectangle
RectCollided(sprite, spr) ==
    \E sprite_radius \in { sprite.w \div 2 } :
    \E ax \in { Abs(sprite.rect[1] - spr.center[1]) } :
    \E ay \in { Abs(sprite.rect[2] - spr.center[2]) } :
        IF ax > spr.w \div 2 + sprite_radius \/ ay > spr.h \div 2 + sprite_radius
        THEN FALSE
        ELSE IF spr.w \div 2 < ax /\ ax <= spr.w \div 2 + sprite_radius
        THEN IF spr.h \div 2 < ay /\ ay <= spr.h \div 2 + sprite_radius
             THEN DistSq(sprite.rect, spr.center) <= sprite_radius * sprite_radius
             ELSE TRUE
        ELSE TRUE

\* collide_with_rect of main.py: sprite against the rectangular sprites of rectgroup
collide_with_rect(sprite, rectgroup) ==
    IF rectgroup = {} THEN FALSE
    ELSE \E spr \in rectgroup : RectCollided(sprite, spr)

(* -------------------------------- Level -------------------------------- *)
RECURSIVE ClonesOf(_, _, _, _)
\* the clones of tracker id_num among clone_list[j..], in list order
ClonesOf(clone_list, id_num, host, j) ==
    IF j > Len(clone_list) THEN << >>
    ELSE (IF clone_list[j].id = id_num
          THEN << NewTracker(clone_list[j].pos, host, clone_list[j].opposite) >>
          ELSE << >>) \o ClonesOf(clone_list, id_num, host, j + 1)

RECURSIVE BuildGroup(_, _, _)
\* arctracker_group in insertion order: each ArcTracker followed by its clones
BuildGroup(lv, id_num, group) ==
    IF id_num > Len(lv.arctracker_pos_list) THEN group
    ELSE LET host == Len(group) + 1
         IN BuildGroup(lv, id_num + 1,
                       group \o << NewTracker(lv.arctracker_pos_list[id_num], 0, FALSE) >>
                             \o ClonesOf(lv.arctracker_clone_list, id_num, host, 1))

\* Level.__init__
NewLevel(lv) ==
    [ arctracker_group |-> BuildGroup(lv, 1, << >>),
      obstacle_group |-> [ i \in 1..Len(lv.obstacle_list) |-> NewObstacle(lv.obstacle_list[i]) ],
      coin_group |-> {},
      goal_group |-> [ g \in 1..Len(lv.goal_pos_list) |-> FALSE ],
      cleared |-> FALSE ]

\* Level.initialize
LevelInitialize(lv, L) ==
    [ arctracker_group |-> [ i \in 1..Len(L.arctracker_group) |->
                                 TrackerInitialize(L.arctracker_group[i]) ],
      obstacle_group |-> [ i \in 1..Len(L.obstacle_group) |->
                               ObstacleInitialize(lv.obstacle_list[i], L.obstacle_group[i]) ],
      coin_group |-> lv.coin_pos_list,
      goal_group |-> [ g \in 1..Len(L.goal_group) |-> FALSE ],
      cleared |-> FALSE ]

\* Level.arctracker_list: the ArcTrackers of the group, without their clones
arctracker_list(group) == SelectSeq(group, LAMBDA a : a.host = 0)

\* self.arctracker_group.update(...); self.obstacle_group.update(...)
\* (a host is updated before its clones, which read its rect)
SpritesUpdate(lv, L, mouse_state, key_state, dt) ==
    LET host(i) == ArcTrackerUpdate(L.arctracker_group[i], mouse_state, key_state, dt)
        group == [ i \in 1..Len(L.arctracker_group) |->
                     LET a == L.arctracker_group[i]
                     IN IF a.host = 0 THEN host(i)
                        ELSE ArcTrackerCloneUpdate(a, host(a.host).rect,
                                                   mouse_state, key_state, dt) ]
    IN [ L EXCEPT
           !.arctracker_group = group,
           !.obstacle_group =
               [ i \in 1..Len(L.obstacle_group) |->
                   ObstacleUpdate(lv.obstacle_list[i], L.obstacle_group[i], dt,
                                  arctracker_list(group)) ] ]

\* a bounds test that takes a tracker touching the edge from outside as gone
OutOfScreen_touching(a) ==
    \/ a.rect[1] <= -(tracker_size \div 2)
    \/ a.rect[1] >= screen_width + tracker_size \div 2
    \/ a.rect[2] <= -(tracker_size \div 2)
    \/ a.rect[2] >= screen_height + tracker_size \div 2

\* the test of the bounds check for one tracker
OutOfScreen(a) ==
    \/ a.rect[1] < -(tracker_size \div 2)
    \/ a.rect[1] > screen_width + tracker_size \div 2
    \/ a.rect[2] < -(tracker_size \div 2)
    \/ a.rect[2] > screen_height + tracker_size \div 2

BoundsHit(L) == \E i \in 1..Len(L.arctracker_group) : OutOfScreen(L.arctracker_group[i])

\* Check whether ArcTracker's position gets out of the screen
BoundsCheck(lv, L) == IF BoundsHit(L) THEN LevelInitialize(lv, L) ELSE L

\* tracker i collides with some obstacle
CollisionHit(lv, L, i) ==
    \E o \in 1..Len(L.obstacle_group) :
        collided(lv.obstacle_list[o], L.obstacle_group[o], L.arctracker_group[i])

\* a collision check that leaves the level as it is
CollisionCheck_ignored(lv, L, i) == L

RECURSIVE CollisionCheck(_, _, _)
\* Detect collision between arc tracker and obstacles, from tracker i on (the
\* break leaves the inner loop only)
CollisionCheck(lv, L, i) ==
    IF i > Len(L.arctracker_group) THEN L
    ELSE CollisionCheck(lv, IF CollisionHit(lv, L, i) THEN LevelInitialize(lv, L) ELSE L, i + 1)

\* a pickup check in which only the ArcTrackers, not their clones, take coins
CoinCheck_hostsonly(L) ==
    [ L EXCEPT !.coin_group =
        { c \in L.coin_group :
            \A i \in 1..Len(L.arctracker_group) :
                ~( /\ L.arctracker_group[i].host = 0
                   /\ DistSq(L.arctracker_group[i].rect, c)
                        < coin_capture_distance * coin_capture_distance ) } ]

\* Detect collision between arc tracker and coins
CoinCheck(L) ==
    [ L EXCEPT !.coin_group =
        { c \in L.coin_group :
            \A i \in 1..Len(L.arctracker_group) :
                ~(DistSq(L.arctracker_group[i].rect, c)
                    < coin_capture_distance * coin_capture_distance) } ]

\* a goal condition that does not look at the coins
GoalMatches_anycoins(lv, L, i, g) ==
    /\ DistSq(L.arctracker_group[i].rect, lv.goal_pos_list[g])
         < goal_lock_distance * goal_lock_distance
    /\ ~L.goal_group[g]

\* the condition of the goal check for tracker i and goal g
GoalMatches(lv, L, i, g) ==
    /\ DistSq(L.arctracker_group[i].rect, lv.goal_pos_list[g])
         < goal_lock_distance * goal_lock_distance
    /\ ~L.goal_group[g]
    /\ Cardinality(L.coin_group) = 0

\* a lock that does not mark the goal as matched
GoalLock_unmarked(lv, L, i, g) ==
    [ L EXCEPT !.arctracker_group[i] =
                   [ reject_path([ @ EXCEPT !.level_complete = TRUE ])
                       EXCEPT !.rect = lv.goal_pos_list[g] ] ]

\* a lock that leaves the tracker's rect where it is
GoalLock_nosnap(lv, L, i, g) ==
    [ L EXCEPT !.arctracker_group[i] = reject_path([ @ EXCEPT !.level_complete = TRUE ]),
               !.goal_group[g] = TRUE ]

\* the body of the goal check for tracker i and goal g
GoalLock(lv, L, i, g) ==
    [ L EXCEPT !.arctracker_group[i] =
                   [ reject_path([ @ EXCEPT !.level_complete = TRUE ])
                       EXCEPT !.rect = lv.goal_pos_list[g] ],
               !.goal_group[g] = TRUE ]

RECURSIVE GoalCheck(_, _, _, _)
\* Determine whether arc tracker reached to goal point, from the pair (i, g) on
GoalCheck(lv, L, i, g) ==
    IF i > Len(L.arctracker_group) THEN L
    ELSE IF g > Len(L.goal_group) THEN GoalCheck(lv, L, i + 1, 1)
    ELSE GoalCheck(lv, IF GoalMatches(lv, L, i, g) THEN GoalLock(lv, L, i, g) ELSE L, i, g + 1)

\* a cleared test satisfied by one completed tracker
ClearedCheck_any(L) ==
    IF \E i \in 1..Len(L.arctracker_group) : L.arctracker_group[i].level_complete
    THEN [ L EXCEPT !.cleared = TRUE ]
    ELSE L

\* Complete level if all ArcTrackers reached all GoalPoints
ClearedCheck(L) ==
    IF \A i \in 1..Len(L.arctracker_group) : L.arctracker_group[i].level_complete
    THEN [ L EXCEPT !.cleared = TRUE ]
    ELSE L


(* ------------------------------- state --------------------------------- *)
VARIABLES
    button,             \* one Button of screens.py (not made: NoButton), with the
                        \*   history of its last update: cursor and lclick (the
                        \*   snapshot), was_down (LCLICK of the update before),
                        \*   started_inside (the press began inside the rect),
                        \*   operated (operate() calls of the update), operations
    screen,             \* the GamePlayScreen with its popups played on their own (not
                        \*   made: NoScreen): manage_list, popup_text_box (0: None, or
                        \*   the number of a popup), popups (every PopupTextBox made,
                        \*   by number), tracker (the level's tracker: idle, dragging
                        \*   or ready)
    arc_tracker,        \* the ArcTracker of main.py played on its own (not made:
                        \*   NoArcTracker), with error: the exception its update raised
    probe,              \* the arguments of a call of a collision function on its own
    verdict,            \* what that call returned (done is false before the call)
    current_levelnum,   \* GamePlayScreen.current_levelnum (0: no level yet)
    now_display,        \* GamePlayScreen.now_display
    arctracker_group,   \* Level.arctracker_group, in insertion order
    obstacle_group,     \* Level.obstacle_group
    coin_group,         \* Level.coin_group, as the set of the coins' positions
    goal_group,         \* Level.goal_group, as the goals' arctracker_matched flags
    cleared,            \* Level.cleared
    frame               \* what the last call did (history, read by the properties only):
                        \*   released: the trackers that processed a drag release,
                        \*   sprites: arctracker_group after the sprites' updates,
                        \*   level: the level when Level.update returned,
                        \*   bounds_reset, collision_reset: the check reinitialized,
                        \*   coins_at_goal_check: coin_group at the goal check,
                        \*   matched, locked: goals and trackers the goal check matched,
                        \*   unreset: trackers the goal check would have matched had
                        \*            neither reset run

vars == << current_levelnum, now_display, arctracker_group, obstacle_group,
           coin_group, goal_group, cleared, frame, probe, verdict, button, screen,
           arc_tracker >>

\* the objects that are played on their own, apart from the level
apart == << button, screen, arc_tracker >>

\* the level, its screen and the collision probe
game == << current_levelnum, now_display, arctracker_group, obstacle_group,
           coin_group, goal_group, cleared, frame, probe, verdict >>

\* no Button has been made
NoButton == [ active |-> FALSE ]

\* no GamePlayScreen is played on its own
NoScreen == [ manage_list |-> << >> ]

\* the ArcTracker of main.py is not played
NoArcTracker == [ state |-> "none" ]

\* none of the objects played on their own has been made
NothingApart == button = NoButton /\ screen = NoScreen /\ arc_tracker = NoArcTracker

\* the current level as one value
Lvl ==
    [ arctracker_group |-> arctracker_group, obstacle_group |-> obstacle_group,
      coin_group |-> coin_group, goal_group |-> goal_group, cleared |-> cleared ]

SetLvl(L) ==
    /\ arctracker_group' = L.arctracker_group
    /\ obstacle_group' = L.obstacle_group
    /\ coin_group' = L.coin_group
    /\ goal_group' = L.goal_group
    /\ cleared' = L.cleared

\* the level before GamePlayScreen.intialize_level has chosen one
NoLevel ==
    [ arctracker_group |-> << >>, obstacle_group |-> << >>, coin_group |-> {},
      goal_group |-> << >>, cleared |-> FALSE ]

NoFrame(op) ==
    [ op |-> op, released |-> {}, sprites |-> << >>, level |-> NoLevel,
      bounds_reset |-> FALSE, collision_reset |-> FALSE,
      coins_at_goal_check |-> {}, matched |-> {}, locked |-> {}, unreset |-> {},
      turned |-> 0, obstacles |-> << >>,
      pickup |-> [ before |-> NoLevel, after |-> NoLevel ],
      rejected |-> {}, popups |-> 0 ]

\* the indexes of the AngleFollowerImageObstacles of layout lv
Followers(lv) ==
    { k \in 1..Len(lv.obstacle_list) :
        lv.obstacle_list[k].kind = "AngleFollowerImageObstacle" }

\* following_at of follower k of layout lv, in arctracker_group group
following_at(lv, k, group) == arctracker_list(group)[lv.obstacle_list[k].at_index + 1]

\* the angular_speed_per_frame of the tracker the followers of lv follow
\* (0 in a layout without a follower)
FollowedTurn(lv, group) ==
    IF Followers(lv) = {} THEN 0
    ELSE following_at(lv, CHOOSE k \in Followers(lv) : TRUE, group).angular_speed_per_frame

\* the input snapshots of one frame: mouse buttons and cursor, the cancel keys
\* (c or Escape), the q key, and DELTA_TIME
Inputs ==
    [ LCLICK : BOOLEAN, RCLICK : BOOLEAN, CURPOS : CursorSet,
      cancel : BOOLEAN, q : {FALSE}, dt : 0..MaxDt ]
    \cup [ LCLICK : {FALSE}, RCLICK : {FALSE}, CURPOS : CursorSet,
           cancel : {FALSE}, q : {TRUE}, dt : 0..MaxDt ]

\* no call of a collision function on its own
NoProbe == [ fn |-> "none", sprite |-> << 0, 0 >>, group |-> {} ]

NoVerdict == [ done |-> FALSE ]

Init ==
    /\ current_levelnum = 0
    /\ now_display = FALSE
    /\ arctracker_group = NoLevel.arctracker_group
    /\ obstacle_group = NoLevel.obstacle_group
    /\ coin_group = NoLevel.coin_group
    /\ goal_group = NoLevel.goal_group
    /\ cleared = NoLevel.cleared
    /\ frame = NoFrame("new")
    /\ probe = NoProbe
    /\ verdict = NoVerdict
    /\ NothingApart

\* GamePlayScreen.intialize_level, from LevelButton.operate or RetryButton.operate
\* (a level that is not the current one is taken as Level.__init__ left it)
intialize_level(levelnum) ==
    /\ ~now_display \/ cleared
    /\ current_levelnum' = levelnum
    /\ SetLvl(LevelInitialize(level_dict[levelnum],
                              IF levelnum = current_levelnum THEN Lvl
                              ELSE NewLevel(level_dict[levelnum])))
    /\ now_display' = TRUE
    /\ frame' = NoFrame("initialize")
    /\ UNCHANGED << probe, verdict >>
    /\ UNCHANGED apart

\* the popup handling of GamePlayScreen.update
PopupRaised(L) == \E i \in 1..Len(L.arctracker_group) : L.arctracker_group[i].raise_popup

\* the PopupTextBox objects the popup handling creates
PopupsCreated(L) == IF PopupRaised(L) THEN 1 ELSE 0

\* a popup handling that rejects the path of the trackers that raised only
ScreenPopup_raisersonly(L) ==
    [ L EXCEPT !.arctracker_group =
        [ i \in 1..Len(L.arctracker_group) |->
            IF L.arctracker_group[i].raise_popup
            THEN [ reject_path(L.arctracker_group[i]) EXCEPT !.raise_popup = FALSE ]
            ELSE L.arctracker_group[i] ] ]

ScreenPopup(L) ==
    IF PopupRaised(L)
    THEN [ L EXCEPT !.arctracker_group =
             [ i \in 1..Len(L.arctracker_group) |->
                 [ reject_path(L.arctracker_group[i]) EXCEPT !.raise_popup = FALSE ] ] ]
    ELSE L

\* every moving tracker turns by a whole number of quarter turns in dt
Representable(group, dt) ==
    \A i \in 1..Len(group) :
        (group[i].state = "Moving" /\ ~group[i].level_complete)
            => /\ QuarterTurns(group[i].rotation_angular_speed, dt) >= 0
               /\ DistSq(group[i].relative_angle, <<0, 0>>) = group[i].rotation_radius_sq

Crashed == \E i \in 1..Len(arctracker_group) : arctracker_group[i].error

\* the trackers that process the release of a drag in this frame
Released(group, in) ==
    { i \in 1..Len(group) :
        /\ ~group[i].level_complete /\ group[i].state = "idle"
        /\ group[i].mouse_pressed /\ ~in.LCLICK }

\* GamePlayScreen.update: Screen.update (Level.update), the q key, the popup handling
GamePlayScreenUpdate(in) ==
    /\ now_display
    /\ current_levelnum \in DOMAIN level_dict
    /\ ~Crashed
    /\ Representable(arctracker_group, in.dt)
    /\ \E lv \in {level_dict[current_levelnum]} :
       \E L1 \in {SpritesUpdate(lv, Lvl, in, in, in.dt)} :
       \E L2 \in {BoundsCheck(lv, L1)} :
       \E L3 \in {CollisionCheck(lv, L2, 1)} :
       \E L4 \in {CoinCheck(L3)} :
       \E L5 \in {GoalCheck(lv, L4, 1, 1)} :
       \E L6 \in {ClearedCheck(L5)} :
       \E L7 \in {IF in.q THEN LevelInitialize(lv, L6) ELSE L6} :
       \E L8 \in {ScreenPopup(L7)} :
          /\ SetLvl(L8)
          /\ now_display' = ~in.q
          /\ frame' = [ op |-> "update",
                        released |-> Released(arctracker_group, in),
                        sprites |-> L1.arctracker_group,
                        level |-> L6,
                        bounds_reset |-> BoundsHit(L1),
                        collision_reset |->
                            \E i \in 1..Len(L2.arctracker_group) : CollisionHit(lv, L2, i),
                        coins_at_goal_check |-> L4.coin_group,
                        matched |-> { g \in 1..Len(L5.goal_group) :
                                        L5.goal_group[g] /\ ~L4.goal_group[g] },
                        locked |-> { i \in 1..Len(L5.arctracker_group) :
                                       /\ L5.arctracker_group[i].level_complete
                                       /\ ~L4.arctracker_group[i].level_complete },
                        unreset |-> { i \in 1..Len(L1.arctracker_group) :
                                        /\ GoalCheck(lv, CoinCheck(L1), 1, 1)
                                              .arctracker_group[i].level_complete
                                        /\ ~L1.arctracker_group[i].level_complete },
                        turned |->
                            IF \/ BoundsHit(L1) \/ in.q
                               \/ \E i \in 1..Len(L2.arctracker_group) : CollisionHit(lv, L2, i)
                            THEN 0
                            ELSE (frame.turned + FollowedTurn(lv, L1.arctracker_group)) % 4,
                        obstacles |-> L2.obstacle_group,
                        pickup |-> [ before |-> L3, after |-> L4 ],
                        rejected |-> { i \in Released(arctracker_group, in) :
                                         L1.arctracker_group[i].raise_popup },
                        popups |-> PopupsCreated(L7) ]
    /\ UNCHANGED << current_levelnum, probe, verdict >>
    /\ UNCHANGED apart

Next ==
    \/ \E levelnum \in MainLevels : intialize_level(levelnum)
    \/ \E in \in Inputs : GamePlayScreenUpdate(in)

Spec == Init /\ [][Next]_vars

(* ------------------- the game on the layouts with a clone --------------- *)
NextClone ==
    \/ \E levelnum \in CloneLevels : intialize_level(levelnum)
    \/ \E in \in Inputs : GamePlayScreenUpdate(in)

SpecClone == Init /\ [][NextClone]_vars

(* ------------------ the game on the layout with a follower --------------- *)
NextFollower ==
    \/ \E levelnum \in FollowerLevels : intialize_level(levelnum)
    \/ \E in \in Inputs : GamePlayScreenUpdate(in)

SpecFollower == Init /\ [][NextFollower]_vars

(* ------------------- the collision functions on their own -------------- *)
\* largest offset, in x and in y, of the probed sprite from ProbeOrigin
MaxOffset == 66

ProbeOrigin == <<100, 100>>

\* the circular obstacles probed: StaticCircularObstacle(x, y, r)
ProbeCircles ==
    { [ kind |-> "StaticCircularObstacle", center |-> <<100, 100>>, radius |-> 50 ],
      [ kind |-> "StaticCircularObstacle", center |-> <<166, 100>>, radius |-> 20 ] }

\* the rectangular obstacles probed: StaticRectangularObstacle(x, y, w, h),
\* whose rect has its top left corner at (x, y)
ProbeRects ==
    { [ kind |-> "StaticRectangularObstacle", x |-> 50, y |-> 50, w |-> 100, h |-> 100 ],
      [ kind |-> "StaticRectangularObstacle", x |-> 130, y |-> 120, w |-> 40, h |-> 20 ] }

\* the rect of a StaticRectangularObstacle as collide_with_rect reads it
RectOf(c) == [ center |-> << c.x + c.w \div 2, c.y + c.h \div 2 >>, w |-> c.w, h |-> c.h ]

\* the sprite of a probe: a tracker-sized sprite with its rect centred at pos
ProbeSprite(pos) == [ rect |-> pos, w |-> tracker_size ]

InitCollide ==
    /\ current_levelnum = 0
    /\ now_display = FALSE
    /\ arctracker_group = NoLevel.arctracker_group
    /\ obstacle_group = NoLevel.obstacle_group
    /\ coin_group = NoLevel.coin_group
    /\ goal_group = NoLevel.goal_group
    /\ cleared = NoLevel.cleared
    /\ frame = NoFrame("new")
    /\ \E pos \in { << ProbeOrigin[1] + dx, ProbeOrigin[2] + dy >> :
                       dx \in 0..MaxOffset, dy \in 0..MaxOffset } :
          \/ \E g \in SUBSET ProbeCircles :
                probe = [ fn |-> "collide_with_circle", sprite |-> pos, group |-> g ]
          \/ \E g \in SUBSET ProbeRects :
                probe = [ fn |-> "collide_with_rect", sprite |-> pos, group |-> g ]
    /\ verdict = NoVerdict
    /\ NothingApart

\* one call of StaticCircularObstacle.collided for every circle of the group,
\* and one call of collide_with_circle for the group
CollideCircles ==
    /\ ~verdict.done
    /\ probe.fn = "collide_with_circle"
    /\ verdict' = [ done |-> TRUE,
                    collided |-> [ c \in probe.group |->
                                     collided(c, NewObstacle(c), ProbeSprite(probe.sprite)) ],
                    collide_with_circle |->
                        collide_with_circle(ProbeSprite(probe.sprite),
                                            { [ center |-> c.center, radius |-> c.radius ] :
                                                c \in probe.group }) ]
    /\ UNCHANGED << current_levelnum, now_display, arctracker_group, obstacle_group,
                    coin_group, goal_group, cleared, frame, probe >>
    /\ UNCHANGED apart

\* one call of collide_with_rect for the group
CollideRects ==
    /\ ~verdict.done
    /\ probe.fn = "collide_with_rect"
    /\ verdict' = [ done |-> TRUE,
                    collide_with_rect |->
                        collide_with_rect(ProbeSprite(probe.sprite),
                                          { RectOf(c) : c \in probe.group }) ]
    /\ UNCHANGED << current_levelnum, now_display, arctracker_group, obstacle_group,
                    coin_group, goal_group, cleared, frame, probe >>
    /\ UNCHANGED apart

NextCollide == CollideCircles \/ CollideRects

SpecCollide == InitCollide /\ [][NextCollide]_vars

(* --------------------------- a Button on its own ------------------------ *)
\* most operate() calls counted
MaxOperations == 4

\* the rect of the Button played: that of NextLevelButton,
\* [screen_width // 2 - 150, screen_height // 2 + 100, 300, 70]
ButtonRect ==
    [ x |-> screen_width \div 2 - 150, y |-> screen_height \div 2 + 100, w |-> 300, h |-> 70 ]

\* cursor positions of the snapshots: the top left corner and the middle of
\* the rect, the first pixel right of it, and a far corner of the screen
ButtonCursors ==
    { << ButtonRect.x, ButtonRect.y >>,
      << ButtonRect.x + 150, ButtonRect.y + 35 >>,
      << ButtonRect.x + ButtonRect.w, ButtonRect.y >>,
      << 0, 0 >> }

\* pygame.Rect.collidepoint: left and top edges inside, right and bottom outside
collidepoint(rect, pos) ==
    /\ rect.x <= pos[1] /\ pos[1] < rect.x + rect.w
    /\ rect.y <= pos[2] /\ pos[2] < rect.y + rect.h

\* Button.__init__
NewButton ==
    [ active |-> TRUE, cursor_in_rect |-> FALSE, is_clicked |-> FALSE,
      cursor |-> << 0, 0 >>, lclick |-> FALSE, was_down |-> FALSE,
      started_inside |-> FALSE, operated |-> 0, operations |-> 0 ]

\* Button.update: hover, click and release tests, with operate() counted
ButtonUpdate(b, mouse_state) ==
    LET in_rect == b.active /\ collidepoint(ButtonRect, mouse_state.CURPOS)
        clicked == (in_rect /\ mouse_state.LCLICK) \/ b.is_clicked
        operates == clicked /\ ~mouse_state.LCLICK
    IN  [ b EXCEPT !.cursor_in_rect = in_rect,
                   !.is_clicked = clicked /\ ~operates,
                   !.operated = IF operates THEN 1 ELSE 0 ]

InitButton ==
    /\ current_levelnum = 0
    /\ now_display = FALSE
    /\ arctracker_group = NoLevel.arctracker_group
    /\ obstacle_group = NoLevel.obstacle_group
    /\ coin_group = NoLevel.coin_group
    /\ goal_group = NoLevel.goal_group
    /\ cleared = NoLevel.cleared
    /\ frame = NoFrame("new")
    /\ probe = NoProbe
    /\ verdict = NoVerdict
    /\ button = NewButton
    /\ screen = NoScreen
    /\ arc_tracker = NoArcTracker

\* one frame of the screen that manages the Button: Button.update with the
\* frame's snapshot (the history fields record the snapshot and the press)
ButtonFrame(mouse_state) ==
    /\ button.operations < MaxOperations
    /\ \E b \in { ButtonUpdate(button, mouse_state) } :
          button' = [ b EXCEPT
                        !.cursor = mouse_state.CURPOS,
                        !.lclick = mouse_state.LCLICK,
                        !.was_down = button.lclick,
                        !.started_inside =
                            IF mouse_state.LCLICK /\ ~button.lclick
                            THEN button.active /\ collidepoint(ButtonRect, mouse_state.CURPOS)
                            ELSE IF mouse_state.LCLICK \/ button.lclick
                            THEN button.started_inside
                            ELSE FALSE,
                        !.operations = button.operations + b.operated ]
    /\ UNCHANGED << game, screen, arc_tracker >>

NextButton ==
    \E mouse_state \in [ LCLICK : BOOLEAN, CURPOS : ButtonCursors ] : ButtonFrame(mouse_state)

SpecButton == InitButton /\ [][NextButton]_vars

\* the game on the layouts with more goals than trackers and fewer
NextGoals ==
    \/ \E levelnum \in GoalLevels : intialize_level(levelnum)
    \/ \E in \in Inputs : GamePlayScreenUpdate(in)

SpecGoals == Init /\ [][NextGoals]_vars

\* NextLevelButton.operate, run by LevelClearedWindow.update of a cleared level:
\* intialize_level(current_levelnum + 1); with no such key in level_dict the
\* lookup raises after current_levelnum was assigned, the level is left as it is
NextLevelButton_operate ==
    /\ now_display
    /\ cleared
    /\ current_levelnum \in DOMAIN level_dict
    /\ IF current_levelnum + 1 \in DOMAIN level_dict
       THEN intialize_level(current_levelnum + 1)
       ELSE /\ current_levelnum' = current_levelnum + 1
            /\ frame' = NoFrame("KeyError")
            /\ UNCHANGED << now_display, arctracker_group, obstacle_group, coin_group,
                            goal_group, cleared, probe, verdict >>
            /\ UNCHANGED apart

\* LevelButton.operate: only the buttons whose number is at most len(level_dict)
LevelButton_operate(levelnum) ==
    /\ levelnum <= Len(level_dict)
    /\ current_levelnum \in DOMAIN level_dict \/ current_levelnum = 0
    /\ intialize_level(levelnum)

\* the game with the NEXT LEVEL button
NextNext ==
    \/ \E levelnum \in NextLevels : LevelButton_operate(levelnum)
    \/ \E in \in Inputs : GamePlayScreenUpdate(in)
    \/ NextLevelButton_operate

SpecNext == Init /\ [][NextNext]_vars


(* ------------------- the screen's popups on their own ------------------- *)
\* most PopupTextBox objects made
MaxPopups == 2

\* frames a popup is displayed between going up and going down: stands for
\* display_frame_cnt = round(display_time * FPS), which in the repository
\* depends on the rendered width of the text
display_frame_cnt == 3

\* lowest rect.y a popup is followed to
MaxPopupY == 1400

FPS == 60

popup_acc == 1500

\* height of the box: 30 more than the text's (a text 24 px high)
box_h == 24 + 30

\* PopupTextBox.__init__ (rect centred on (screen_width // 2, screen_height + 100))
NewPopup ==
    [ popup_speed |-> 800, y |-> screen_height + 100 - box_h \div 2,
      current_frame_cnt |-> 0, moving_up |-> TRUE, moving_down |-> FALSE,
      alive |-> TRUE ]

\* PopupTextBox.update: the speed falls by popup_acc / FPS a frame, rect.y
\* (an integer) moves by speed / FPS; kill() once rect.y > screen_height + 200
PopupUpdate(p) ==
    IF p.moving_up
    THEN [ p EXCEPT !.popup_speed = @ - popup_acc \div FPS,
                    !.y = (FPS * @ - (p.popup_speed - popup_acc \div FPS)) \div FPS,
                    !.moving_up = ~(p.popup_speed - popup_acc \div FPS <= 0) ]
    ELSE IF p.moving_down
    THEN [ p EXCEPT !.popup_speed = @ - popup_acc \div FPS,
                    !.y = (FPS * @ - (p.popup_speed - popup_acc \div FPS)) \div FPS,
                    !.alive = @ /\ ~((FPS * p.y - (p.popup_speed - popup_acc \div FPS)) \div FPS
                                        > screen_height + 200) ]
    ELSE [ p EXCEPT !.current_frame_cnt = @ + 1,
                    !.moving_down = p.current_frame_cnt + 1 >= display_frame_cnt ]

\* the entries of manage_list
TextEntry == [ kind |-> "Text", id |-> 0 ]

LevelEntry == [ kind |-> "Level", id |-> 0 ]

PopupEntry(n) == [ kind |-> "PopupTextBox", id |-> n ]

\* the popups of a manage_list, by position
Listed(manage_list) ==
    { k \in 1..Len(manage_list) : manage_list[k].kind = "PopupTextBox" }

\* GamePlayScreen after __init__ and a first intialize_level
NewScreen ==
    [ manage_list |-> << TextEntry, LevelEntry >>, popup_text_box |-> 0,
      popups |-> << >>, tracker |-> "idle" ]

\* Screen.update: every entry of manage_list is updated; of the level only
\* its tracker's drag is followed (a press starts it, a release ends it, too
\* small a radius raises the popup, a cancel leaves Ready)
ScreenUpdate(sc, in) ==
    [ sc EXCEPT
        !.popups = [ n \in 1..Len(sc.popups) |->
                       IF \E k \in Listed(sc.manage_list) : sc.manage_list[k].id = n
                       THEN PopupUpdate(sc.popups[n])
                       ELSE sc.popups[n] ],
        !.tracker = IF \A k \in 1..Len(sc.manage_list) : sc.manage_list[k].kind # "Level"
                    THEN sc.tracker
                    ELSE IF sc.tracker = "idle"
                    THEN (IF in.LCLICK THEN "dragging" ELSE "idle")
                    ELSE IF sc.tracker = "dragging"
                    THEN (IF in.LCLICK THEN "dragging"
                          ELSE IF in.small THEN "idle" ELSE "ready")
                    ELSE (IF in.cancel /\ ~in.LCLICK THEN "idle" ELSE "ready") ]

\* any([a.raise_popup ...]) after Screen.update: the drag ended in this
\* frame with too small a radius
RaisedPopup(sc, in) ==
    /\ \E k \in 1..Len(sc.manage_list) : sc.manage_list[k].kind = "Level"
    /\ sc.tracker = "dragging"
    /\ ~in.LCLICK
    /\ in.small

\* Generate popup if needed
PopupGenerate(sc) ==
    [ sc EXCEPT !.popups = Append(@, NewPopup),
                !.popup_text_box = Len(sc.popups) + 1,
                !.manage_list = Append(@, PopupEntry(Len(sc.popups) + 1)) ]

\* Delete popup object from manage list if it is killed
PopupDelete(sc) ==
    IF sc.popup_text_box # 0 /\ ~sc.popups[sc.popup_text_box].alive
    THEN [ sc EXCEPT !.manage_list = SubSeq(@, 1, Len(@) - 1),
                     !.popup_text_box = 0 ]
    ELSE sc

InitPopup ==
    /\ current_levelnum = 0
    /\ now_display = FALSE
    /\ arctracker_group = NoLevel.arctracker_group
    /\ obstacle_group = NoLevel.obstacle_group
    /\ coin_group = NoLevel.coin_group
    /\ goal_group = NoLevel.goal_group
    /\ cleared = NoLevel.cleared
    /\ frame = NoFrame("new")
    /\ probe = NoProbe
    /\ verdict = NoVerdict
    /\ button = NoButton
    /\ screen = NewScreen
    /\ arc_tracker = NoArcTracker

\* GamePlayScreen.update with the q key up and the level not cleared
ScreenFrame(in) ==
    /\ \A n \in 1..Len(screen.popups) : screen.popups[n].y <= MaxPopupY
    /\ RaisedPopup(screen, in) => Len(screen.popups) < MaxPopups
    /\ \E s1 \in { ScreenUpdate(screen, in) } :
       \E s2 \in { IF RaisedPopup(screen, in) THEN PopupGenerate(s1) ELSE s1 } :
          screen' = PopupDelete(s2)
    /\ UNCHANGED << game, button, arc_tracker >>

\* GamePlayScreen.intialize_level (after q and a LevelButton): manage_list is
\* cleared and gets the number's text and the level; Level.initialize
ScreenIntializeLevel ==
    /\ screen' = [ screen EXCEPT !.manage_list = << TextEntry, LevelEntry >>,
                                 !.tracker = "idle" ]
    /\ UNCHANGED << game, button, arc_tracker >>

NextPopup ==
    \/ \E in \in [ LCLICK : BOOLEAN, small : BOOLEAN, cancel : BOOLEAN ] : ScreenFrame(in)
    \/ ScreenIntializeLevel

SpecPopup == InitPopup /\ [][NextPopup]_vars


(* --------------------- the ArcTracker of main.py ------------------------ *)
\* farthest, in x and in y, the tracker is followed from its start position
MaxReach == 300

\* arc_tracker = ArcTracker((960, 540))
MainStart == << 960, 540 >>

\* test_obstacle = StaticCircularObstacle(200, 200, 100)
test_obstacle == [ center |-> << 200, 200 >>, radius |-> 100 ]

\* cursor positions of the snapshots: the tracker's start position, and the
\* points 150 px above it and 150 px left of it
MainCursors == { MainStart, << 960, 390 >>, << 810, 540 >> }

\* ArcTracker.__init__ of main.py
NewArcTracker ==
    [ state |-> "idle", initial_pos |-> MainStart,
      x_pos |-> MainStart[1], y_pos |-> MainStart[2], rect |-> MainStart,
      rotation_axis |-> << 0, 0 >>, rotation_radius_sq |-> 0,
      relative_angle |-> << 0, 0 >>, direction_factor |-> 1,
      path |-> FALSE, mouse_pressed |-> FALSE, error |-> "none" ]

\* the Idle branch: the press starts the drag, the axis follows the cursor,
\* the release makes the tracker Ready (no test of the radius)
MainIdle(a, mouse_state) ==
    LET a1 == IF ~a.mouse_pressed /\ mouse_state.LCLICK
              THEN [ a EXCEPT !.mouse_pressed = TRUE, !.path = TRUE ]
              ELSE a
    IN  IF ~a1.mouse_pressed THEN a1
        ELSE IF mouse_state.LCLICK
        THEN [ a1 EXCEPT !.rotation_axis = mouse_state.CURPOS ]
        ELSE [ a1 EXCEPT !.rotation_axis = mouse_state.CURPOS,
                         !.mouse_pressed = FALSE, !.state = "ready" ]

\* the Ready branch: one button alone fixes the direction, with
\* rotation_angular_speed = rotation_speed / rotation_radius (ZeroDivisionError
\* for a radius of 0, raised after the latch and the radius were assigned);
\* the release of both buttons starts the move; a cancel key with no button
\* pressed kills the path
MainReady(a, mouse_state, key_state) ==
    LET fixes == ~a.mouse_pressed /\ (mouse_state.LCLICK # mouse_state.RCLICK)
        radius_sq == DistSq(<< a.x_pos, a.y_pos >>, a.rotation_axis)
        a1 == IF fixes
              THEN [ a EXCEPT !.mouse_pressed = TRUE,
                              !.rotation_radius_sq = radius_sq,
                              !.relative_angle = << a.x_pos - a.rotation_axis[1],
                                                    a.y_pos - a.rotation_axis[2] >>,
                              !.direction_factor = IF mouse_state.LCLICK THEN -1 ELSE 1 ]
              ELSE a
        a2 == IF a1.mouse_pressed /\ ~(mouse_state.LCLICK \/ mouse_state.RCLICK)
              THEN [ a1 EXCEPT !.mouse_pressed = FALSE, !.state = "Moving" ]
              ELSE a1
    IN  IF fixes /\ radius_sq = 0
        THEN [ a EXCEPT !.mouse_pressed = TRUE, !.rotation_radius_sq = 0,
                        !.error = "ZeroDivisionError" ]
        ELSE IF key_state.cancel /\ ~(mouse_state.LCLICK \/ mouse_state.RCLICK)
        THEN [ a2 EXCEPT !.path = FALSE, !.state = "idle" ]
        ELSE a2

\* the Moving branch: the tracker goes along its circle (of its frames only
\* those that complete a quarter turn are followed: turn = 1), a collision
\* puts it back on its start position, a press kills the path and its
\* release makes the tracker Idle; self.path.kill() with no path raises
MainMoving(a, mouse_state, turn) ==
    LET rel == IF turn = 0 THEN a.relative_angle
               ELSE << -a.direction_factor * a.relative_angle[2],
                       a.direction_factor * a.relative_angle[1] >>
        a1 == [ a EXCEPT !.relative_angle = rel,
                         !.x_pos = a.rotation_axis[1] + rel[1],
                         !.y_pos = a.rotation_axis[2] + rel[2] ]
        a2 == IF ~a1.mouse_pressed /\ mouse_state.LCLICK
              THEN [ a1 EXCEPT !.mouse_pressed = TRUE, !.path = FALSE,
                               !.error = IF a1.path THEN "none" ELSE "AttributeError" ]
              ELSE a1
    IN  IF collide_with_circle(ProbeSprite(a.rect), { test_obstacle })
        THEN [ a1 EXCEPT !.path = FALSE,
                         !.error = IF a1.path THEN "none" ELSE "AttributeError",
                         !.x_pos = a.initial_pos[1], !.y_pos = a.initial_pos[2],
                         !.rect = a.initial_pos, !.state = "idle" ]
        ELSE IF a2.mouse_pressed /\ ~mouse_state.LCLICK
        THEN [ a2 EXCEPT !.mouse_pressed = FALSE, !.state = "idle" ]
        ELSE a2

\* ArcTracker.update of main.py; rect.center follows the position at the end
MainUpdate(a, mouse_state, key_state, turn) ==
    LET a1 == IF a.state = "idle" THEN MainIdle(a, mouse_state)
              ELSE IF a.state = "ready" THEN MainReady(a, mouse_state, key_state)
              ELSE MainMoving(a, mouse_state, turn)
    IN  IF a1.error # "none" THEN a1
        ELSE [ a1 EXCEPT !.rect = << a1.x_pos, a1.y_pos >> ]

InitMain ==
    /\ current_levelnum = 0
    /\ now_display = FALSE
    /\ arctracker_group = NoLevel.arctracker_group
    /\ obstacle_group = NoLevel.obstacle_group
    /\ coin_group = NoLevel.coin_group
    /\ goal_group = NoLevel.goal_group
    /\ cleared = NoLevel.cleared
    /\ frame = NoFrame("new")
    /\ probe = NoProbe
    /\ verdict = NoVerdict
    /\ button = NoButton
    /\ screen = NoScreen
    /\ arc_tracker = NewArcTracker

\* one pass of the main game loop of main.py: all_sprites.update(mouse, keys)
MainLoop(in) ==
    /\ arc_tracker.error = "none"
    /\ Abs(arc_tracker.x_pos - MainStart[1]) <= MaxReach
    /\ Abs(arc_tracker.y_pos - MainStart[2]) <= MaxReach
    /\ arc_tracker' = MainUpdate(arc_tracker, in, in, in.turn)
    /\ UNCHANGED << game, button, screen >>

NextMain ==
    \E in \in [ LCLICK : BOOLEAN, RCLICK : BOOLEAN, CURPOS : MainCursors,
                 cancel : BOOLEAN, turn : 0..1 ] : MainLoop(in)

SpecMain == InitMain /\ [][NextMain]_vars


(* ------------------------------ properties ----------------------------- *)
Trackers == 1..Len(arctracker_group)

MinSq == min_orbit_radius * min_orbit_radius

\* the distance (squared) between tracker a and its rotation axis
AxisDistSq(a) == DistSq(<< a.x_pos, a.y_pos >>, a.rotation_axis)

\* C1: on the frame a drag is released, an ArcTracker or ArcTrackerClone enters
\* Ready exactly when the distance between its position and the fixed axis is at
\* least the level's minimum radius (equality succeeds), and no frame takes a
\* tracker from Idle to Ready in any other way.
C1_ReadyIffMinimumRadius ==
    [][ frame'.op = "update" =>
          \A i \in Trackers :
             LET a == frame'.sprites[i]
             IN /\ i \in frame'.released =>
                     (a.state = "ready" <=> AxisDistSq(a) >= MinSq)
                /\ (arctracker_group[i].state = "idle" /\ a.state = "ready") =>
                     (i \in frame'.released /\ AxisDistSq(a) >= MinSq) ]_vars

\* a clone and its host both released a drag at exactly the minimum radius and
\* became Ready
C1_Witness ==
    /\ frame.op = "update"
    /\ \E i \in frame.released, j \in frame.released :
          /\ frame.sprites[i].host = 0 /\ frame.sprites[j].host = i
          /\ frame.sprites[i].state = "ready" /\ AxisDistSq(frame.sprites[i]) = MinSq
          /\ frame.sprites[j].state = "ready" /\ AxisDistSq(frame.sprites[j]) = MinSq

\* C2 (as stated): a drag released with a radius below the minimum leaves the
\* tracker, when that Level.update call returns, Idle, with no path, no
\* borderline and no axis marker, and with raise_popup set.
C2_RejectedReleaseSignalled ==
    frame.op = "update" =>
        \A i \in frame.released :
            AxisDistSq(frame.sprites[i]) < MinSq =>
                LET a == frame.level.arctracker_group[i]
                IN /\ a.state = "idle" /\ ~a.path /\ ~a.borderline /\ ~a.axis_marker
                   /\ a.raise_popup

\* C3: the goal check sets no level_complete and no arctracker_matched while
\* coin_group is non-empty, so no tracker is complete and no goal matched
\* while a coin is left.
C3_NoLockWhileCoinsRemain ==
    /\ (frame.op = "update" /\ frame.coins_at_goal_check # {})
          => (frame.matched = {} /\ frame.locked = {})
    /\ coin_group # {} =>
          /\ \A i \in Trackers : ~arctracker_group[i].level_complete
          /\ \A g \in 1..Len(goal_group) : ~goal_group[g]

\* a tracker stands exactly on an unmatched goal at the goal check while a coin
\* is left, and is not completed
C3_Witness ==
    /\ frame.op = "update" /\ frame.coins_at_goal_check # {}
    /\ \E i \in DOMAIN frame.level.arctracker_group :
       \E g \in 1..Len(goal_group) :
          /\ frame.level.arctracker_group[i].rect
                = level_dict[current_levelnum].goal_pos_list[g]
          /\ ~frame.level.arctracker_group[i].level_complete

\* the trackers of the level as Level.update returned it
Returned == frame.level.arctracker_group

Layout == level_dict[current_levelnum]

\* tracker a is as ArcTracker.initialize leaves it, its rect and level_complete aside
AtStart(a) ==
    /\ << a.x_pos, a.y_pos >> = a.initial_pos
    /\ a.state = "idle" /\ ~a.mouse_pressed /\ ~a.raise_popup
    /\ ~a.path /\ ~a.borderline /\ ~a.axis_marker

\* C4 (as stated): a collision in a Level.update call leaves, when the call
\* returns, every tracker at its initial position, Idle, with latch, raise_popup
\* and level_complete cleared and no path, every coin of coin_pos_list in
\* coin_group, every goal unmatched and cleared false.
C4_CollisionLeavesInitialLevel ==
    (frame.op = "update" /\ frame.collision_reset) =>
        /\ \A i \in DOMAIN Returned :
              /\ AtStart(Returned[i])
              /\ Returned[i].rect = Returned[i].initial_pos
              /\ ~Returned[i].level_complete
        /\ frame.level.coin_group = Layout.coin_pos_list
        /\ \A g \in DOMAIN frame.level.goal_group : ~frame.level.goal_group[g]
        /\ ~frame.level.cleared

\* C4 (amended): a collision in a Level.update call leaves, when the call
\* returns, every tracker at its initial position, Idle, with latch and
\* raise_popup cleared and no path, and the level as the pickup, goal and
\* cleared checks of that same call make it from the initial positions: the coins
\* of coin_pos_list that lie at capture distance or more from every initial
\* position, and a tracker complete (with its goal matched and its rect on the
\* goal) only where its initial position is within the lock distance of a goal.
C4_CollisionLeavesRecheckedInitialLevel ==
    (frame.op = "update" /\ frame.collision_reset) =>
        /\ \A i \in DOMAIN Returned :
              /\ AtStart(Returned[i])
              /\ Returned[i].level_complete <=> i \in frame.locked
              /\ ~Returned[i].level_complete =>
                    Returned[i].rect = Returned[i].initial_pos
              /\ Returned[i].level_complete =>
                    \E g \in frame.matched :
                        /\ Returned[i].rect = Layout.goal_pos_list[g]
                        /\ DistSq(Returned[i].initial_pos, Layout.goal_pos_list[g])
                             < goal_lock_distance * goal_lock_distance
                        /\ frame.level.coin_group = {}
        /\ frame.level.coin_group =
              { c \in Layout.coin_pos_list :
                  \A i \in DOMAIN Returned :
                      DistSq(Returned[i].initial_pos, c)
                        >= coin_capture_distance * coin_capture_distance }
        /\ \A g \in DOMAIN frame.level.goal_group :
              frame.level.goal_group[g] <=> g \in frame.matched
        /\ frame.level.cleared <=> \A i \in DOMAIN Returned : Returned[i].level_complete

\* a tracker that had locked onto a goal in an earlier frame collides and is
\* sent back to its initial position, not complete
C4_Witness ==
    /\ frame.op = "update" /\ frame.collision_reset
    /\ \E i \in DOMAIN Returned :
          /\ frame.sprites[i].level_complete
          /\ frame.sprites[i].rect # frame.sprites[i].initial_pos
          /\ ~Returned[i].level_complete
          /\ Returned[i].rect = Returned[i].initial_pos

\* the bounding box of tracker a lies wholly outside the screen: its centre is
\* more than half its size beyond an edge
BoxOutside(a) ==
    \/ a.rect[1] + tracker_size \div 2 < 0
    \/ a.rect[1] - tracker_size \div 2 > screen_width
    \/ a.rect[2] + tracker_size \div 2 < 0
    \/ a.rect[2] - tracker_size \div 2 > screen_height

\* C5: the bounds check of a Level.update call resets the level exactly when,
\* after the sprites' updates, the bounding box of some tracker or clone lies
\* wholly outside the screen; a tracker partly outside, or touching the edge from
\* outside, does not trigger it.  The reset puts every tracker back at its
\* initial position.
C5_BoundsResetIffWhollyOutside ==
    frame.op = "update" =>
        /\ frame.bounds_reset <=>
              \E i \in DOMAIN frame.sprites : BoxOutside(frame.sprites[i])
        /\ frame.bounds_reset =>
              \A i \in DOMAIN Returned :
                  << Returned[i].x_pos, Returned[i].y_pos >> = Returned[i].initial_pos

\* a tracker moved wholly off the screen and the level was reset
C5_Witness ==
    /\ frame.op = "update" /\ frame.bounds_reset
    /\ \E i \in DOMAIN frame.sprites :
          /\ frame.sprites[i].rect[1] < -(tracker_size \div 2)
          /\ frame.sprites[i].state = "Moving"
          /\ Returned[i].state = "idle"

\* C6: a Level.update call runs the bounds check and the collision check before
\* the pickup and goal checks, so in a call that resets the level the goal check
\* completes a tracker only on the basis of its position after the reset (its
\* initial position), never of the position it had before.
C6_ResetBeforeGoalCheck ==
    (frame.op = "update" /\ (frame.bounds_reset \/ frame.collision_reset)) =>
        \A i \in frame.locked :
            \E g \in frame.matched :
                /\ DistSq(Returned[i].initial_pos, Layout.goal_pos_list[g])
                     < goal_lock_distance * goal_lock_distance
                /\ Returned[i].rect = Layout.goal_pos_list[g]

\* a tracker arrived on an unmatched goal with no coin left in a frame that
\* reset the level, and was not completed
C6_Witness ==
    /\ frame.op = "update" /\ (frame.bounds_reset \/ frame.collision_reset)
    /\ frame.unreset # {} /\ frame.locked = {}
    /\ \A i \in DOMAIN Returned : ~Returned[i].level_complete

\* C7: in a level with at least one tracker, after every Level.initialize and
\* every Level.update call, cleared is true exactly when every ArcTracker and
\* ArcTrackerClone of the level has level_complete set.
C7_ClearedIffAllComplete ==
    /\ Len(arctracker_group) >= 1 =>
          (cleared <=> \A i \in Trackers : arctracker_group[i].level_complete)
    /\ (frame.op = "update" /\ Len(Returned) >= 1) =>
          (frame.level.cleared <=> \A i \in DOMAIN Returned : Returned[i].level_complete)

\* a level with a tracker and a clone, one complete and the other not, is not
\* cleared
C7_Witness ==
    /\ frame.op = "update" /\ ~cleared
    /\ \E i \in Trackers, j \in Trackers :
          arctracker_group[i].level_complete /\ ~arctracker_group[j].level_complete

\* C8: Level.initialize is idempotent: called on a level it has just
\* initialized, it changes nothing.
C8_InitializeIdempotent ==
    current_levelnum # 0 =>
        LevelInitialize(Layout, LevelInitialize(Layout, Lvl)) = LevelInitialize(Layout, Lvl)

\* a level that Level.initialize changes in every part: a coin collected, a
\* tracker away from its initial position, a goal matched, an obstacle turned
C8_Witness ==
    /\ current_levelnum # 0
    /\ coin_group # Layout.coin_pos_list
    /\ \E i \in Trackers : arctracker_group[i].rect # arctracker_group[i].initial_pos
    /\ \E g \in DOMAIN goal_group : goal_group[g]
    /\ \E o \in DOMAIN obstacle_group :
          LevelInitialize(Layout, Lvl).obstacle_group[o] # obstacle_group[o]

PathAsStateAndLatch(a) ==
    a.path <=> /\ ~a.level_complete
               /\ \/ a.state = "idle" /\ a.mouse_pressed
                  \/ a.state = "ready"
                  \/ a.state = "Moving" /\ ~a.mouse_pressed

C10_RadiusAtLeastMinimum ==
    \A i \in Trackers :
        LET a == arctracker_group[i]
        IN /\ a.state \in {"ready", "Moving"} =>
                (a.rotation_radius_sq >= MinSq /\ AxisDistSq(a) >= MinSq)
           /\ a.rotation_angular_speed.speed # 0 => a.rotation_angular_speed.radius_sq >= MinSq
           /\ ~a.error

\* a tracker Moving on a circle of exactly the minimum radius
C10_Witness ==
    \E i \in Trackers :
        /\ arctracker_group[i].state = "Moving"
        /\ arctracker_group[i].rotation_radius_sq = MinSq
        /\ arctracker_group[i].rotation_angular_speed = AngularSpeed(MinSq)
        /\ arctracker_group[i].rect # arctracker_group[i].initial_pos

\* the input snapshots of the frames GamePlayScreen.update can run now
FrameInputs ==
    IF now_display /\ ~Crashed
    THEN { in \in Inputs : ~in.q /\ Representable(arctracker_group, in.dt) }
    ELSE {}

\* tracker i as the sprites' update of a frame with input snapshot in leaves it
Updated(i, in) == SpritesUpdate(Layout, Lvl, in, in, in.dt).arctracker_group[i]

\* tracker a takes part in the game: its level_complete is not set
Live(a) == ~a.level_complete

\* tracker a is an ArcTracker in Ready that fixes its direction in a frame with
\* input snapshot in: latch unset and exactly one of the two buttons pressed
Commits(a, in) ==
    /\ Live(a) /\ a.state = "ready" /\ ~a.mouse_pressed
    /\ in.LCLICK # in.RCLICK

\* tracker b is tracker a after one integration step of DELTA_TIME dt:
\* theta <- theta + direction_factor * omega * dt, position on the orbit at theta
Integrated(a, b, dt) ==
    /\ b.angular_speed_per_frame
         = a.direction_factor * QuarterTurns(a.rotation_angular_speed, dt)
    /\ b.relative_angle = Rot(a.relative_angle, b.angular_speed_per_frame)
    /\ << b.x_pos, b.y_pos >> = << a.rotation_axis[1] + b.relative_angle[1],
                                   a.rotation_axis[2] + b.relative_angle[2] >>

Untouched(a, b) == b = [ a EXCEPT !.angular_speed_per_frame = 0 ]

\* C12: in Ready, a frame in which the primary and the secondary button are
\* both pressed fixes no direction: the state stays Ready, the latch stays
\* unset, direction_factor, rotation_angular_speed and relative_angle are
\* unchanged and raise_popup is not set (whatever the cancel keys are).
C12_BothButtonsFixNothing ==
    \A in \in FrameInputs : \A i \in Trackers :
        LET a == arctracker_group[i] IN
        (Live(a) /\ a.state = "ready" /\ ~a.mouse_pressed /\ in.LCLICK /\ in.RCLICK) =>
            /\ Untouched(a, Updated(i, in))
            /\ Updated(i, in).state = "ready" /\ ~Updated(i, in).mouse_pressed
            /\ ~Updated(i, in).raise_popup

\* a tracker in Ready with its latch unset in a frame with both buttons pressed
C12_Witness ==
    \E in \in FrameInputs : \E i \in Trackers :
        /\ in.LCLICK /\ in.RCLICK /\ in.cancel
        /\ Live(arctracker_group[i]) /\ arctracker_group[i].state = "ready"
        /\ ~arctracker_group[i].mouse_pressed /\ arctracker_group[i].path
        /\ Updated(i, in).state = "ready"

\* the button that fixed the direction of tracker a was the primary one
CommittedWithPrimary(a) == (a.direction_factor = -1) # a.move_opposite_direction

\* tracker a waits in Ready for the release of the button that fixed its direction
Waiting(a) == Live(a) /\ a.state = "ready" /\ a.mouse_pressed

\* C13 (as stated): a tracker whose direction has been fixed in Ready becomes
\* Moving on the frame in which the button that fixed it is released, whatever
\* the other button is on that frame, and a tracker never becomes Moving before
\* a direction has been fixed.
C13_MovingOnReleaseOfCommitButton ==
    \A in \in FrameInputs : \A i \in Trackers :
        LET a == arctracker_group[i] IN
        /\ (Waiting(a) /\ ~(IF CommittedWithPrimary(a) THEN in.LCLICK ELSE in.RCLICK))
              => Updated(i, in).state = "Moving"
        /\ (Live(a) /\ a.state # "Moving" /\ Updated(i, in).state = "Moving")
              => Waiting(a)

\* C13 (amended): a tracker whose direction has been fixed in Ready becomes
\* Moving on the first frame in which neither button is pressed and no cancel
\* key is pressed (with a cancel key pressed on that frame it returns to Idle
\* instead; while either button is pressed it stays Ready), and a tracker never
\* becomes Moving before a direction has been fixed.
C13_MovingWhenBothButtonsUp ==
    \A in \in FrameInputs : \A i \in Trackers :
        LET a == arctracker_group[i] IN
        /\ Waiting(a) =>
              /\ Updated(i, in).state = "Moving"
                    <=> (~in.LCLICK /\ ~in.RCLICK /\ ~in.cancel)
              /\ (in.LCLICK \/ in.RCLICK) => Untouched(a, Updated(i, in))
              /\ (~in.LCLICK /\ ~in.RCLICK /\ in.cancel) => Updated(i, in).state = "idle"
        /\ (Live(a) /\ a.state # "Moving" /\ Updated(i, in).state = "Moving")
              => /\ Waiting(a)
                 /\ a.rotation_angular_speed = AngularSpeed(AxisDistSq(a))

\* a tracker committed with the primary button stays Ready in a frame in which
\* that button is released and the secondary one is pressed, and becomes Moving
\* in a frame with both up
C13_Witness ==
    \E in \in FrameInputs, up \in FrameInputs : \E i \in Trackers :
        /\ Waiting(arctracker_group[i]) /\ CommittedWithPrimary(arctracker_group[i])
        /\ ~in.LCLICK /\ in.RCLICK /\ Updated(i, in).state = "ready"
        /\ ~up.LCLICK /\ ~up.RCLICK /\ Updated(i, up).state = "Moving"

\* C14 (as stated): in Ready, also while a direction button is held, a frame
\* in which a cancel key is pressed discards the path and returns the tracker to
\* Idle, its position unchanged.
C14_CancelAlwaysReturnsToIdle ==
    \A in \in FrameInputs : \A i \in Trackers :
        LET a == arctracker_group[i] IN
        (Live(a) /\ a.state = "ready" /\ in.cancel) =>
            /\ Updated(i, in).state = "idle" /\ ~Updated(i, in).path
            /\ << Updated(i, in).x_pos, Updated(i, in).y_pos >> = << a.x_pos, a.y_pos >>

\* C14 (amended): in Ready, a frame in which a cancel key is pressed and
\* neither mouse button is pressed discards the path and returns the tracker to
\* Idle with its latch unset and its position unchanged; in a frame in which a
\* mouse button is pressed the cancel keys are ignored.
C14_CancelWithButtonsUpReturnsToIdle ==
    \A in \in FrameInputs : \A i \in Trackers :
        LET a == arctracker_group[i]
            b == Updated(i, in)
            c == Updated(i, [in EXCEPT !.cancel = FALSE])
        IN (Live(a) /\ a.state = "ready" /\ in.cancel) =>
             /\ << b.x_pos, b.y_pos >> = << a.x_pos, a.y_pos >> /\ b.rect = a.rect
             /\ ~b.error /\ ~b.raise_popup
             /\ (~in.LCLICK /\ ~in.RCLICK) =>
                   (b.state = "idle" /\ ~b.path /\ ~b.mouse_pressed)
             /\ (in.LCLICK \/ in.RCLICK) => (b = c /\ b.state = "ready" /\ b.path)

\* a tracker in Ready is returned to Idle by a cancel key with both buttons up,
\* and stays Ready when the key comes with the primary button pressed
C14_Witness ==
    \E in \in FrameInputs, held \in FrameInputs : \E i \in Trackers :
        /\ Live(arctracker_group[i]) /\ arctracker_group[i].state = "ready"
        /\ arctracker_group[i].path
        /\ in.cancel /\ ~in.LCLICK /\ ~in.RCLICK
        /\ Updated(i, in).state = "idle" /\ ~Updated(i, in).path
        /\ held.cancel /\ held.LCLICK /\ Updated(i, held).state = "ready"

\* C15: in Moving, a press of the primary button is the only input that stops
\* the tracker: in a frame with no primary press, whatever the secondary button
\* and the cancel keys are, the tracker stays Moving and integrates; on the frame
\* of the primary press the path is discarded and the angular speed set to zero,
\* so that the position is constant in all following frames; and on the frame
\* the primary button is released the tracker becomes Idle.
C15_OnlyPrimaryPressStops ==
    \A in \in FrameInputs : \A i \in Trackers :
        LET a == arctracker_group[i]
            b == Updated(i, in)
        IN (Live(a) /\ a.state = "Moving") =>
             /\ ~b.error
             /\ (~a.mouse_pressed /\ ~in.LCLICK) =>
                   /\ b.state = "Moving" /\ ~b.mouse_pressed /\ b.path
                   /\ Integrated(a, b, in.dt)
                   /\ b.rotation_angular_speed = a.rotation_angular_speed
                   /\ a.rotation_angular_speed = AngularSpeed(a.rotation_radius_sq)
             /\ (~a.mouse_pressed /\ in.LCLICK) =>
                   /\ b.state = "Moving" /\ b.mouse_pressed /\ ~b.path
                   /\ b.rotation_angular_speed = ZeroSpeed
             /\ a.mouse_pressed =>
                   /\ << b.x_pos, b.y_pos >> = << a.x_pos, a.y_pos >> /\ b.rect = a.rect
                   /\ ~a.path /\ ~b.path
                   /\ b.state = (IF in.LCLICK THEN "Moving" ELSE "idle")

\* a tracker Moving keeps turning in a frame with the secondary button and a
\* cancel key pressed
C15_Witness ==
    \E in \in FrameInputs : \E i \in Trackers :
        LET a == arctracker_group[i] IN
        /\ Live(a) /\ a.state = "Moving" /\ ~a.mouse_pressed
        /\ in.RCLICK /\ in.cancel /\ ~in.LCLICK
        /\ Updated(i, in).state = "Moving"
        /\ Updated(i, in).angular_speed_per_frame # 0
        /\ Updated(i, in).rect # a.rect

\* C16: once level_complete is set, every ArcTracker.update and
\* ArcTrackerClone.update call is inert for any input snapshot: state, x_pos,
\* y_pos, rect, path, latch, rotation parameters and raise_popup are left
\* unchanged and angular_speed_per_frame is 0.
C16_CompleteTrackerInert ==
    \A in \in FrameInputs : \A i \in Trackers :
        arctracker_group[i].level_complete =>
            /\ Untouched(arctracker_group[i], Updated(i, in))
            /\ Updated(i, in).angular_speed_per_frame = 0

\* a complete tracker, locked onto a goal away from where it arrived, is left
\* alone by a frame with the primary button pressed and time passing
C16_Witness ==
    \E in \in FrameInputs : \E i \in Trackers :
        /\ arctracker_group[i].level_complete
        /\ arctracker_group[i].rect # << arctracker_group[i].x_pos, arctracker_group[i].y_pos >>
        /\ in.LCLICK /\ in.dt > 0
        /\ Untouched(arctracker_group[i], Updated(i, in))

\* the positions of the goals that are matched
MatchedGoals == { Layout.goal_pos_list[g] : g \in { h \in DOMAIN goal_group : goal_group[h] } }

Reinitialized == frame.op # "update" \/ frame.bounds_reset \/ frame.collision_reset \/ ~now_display

C18_AngularSpeedTimesRadiusIsSpeed ==
    \A in \in FrameInputs : \A i \in Trackers :
        LET a == arctracker_group[i]
            b == Updated(i, in)
        IN /\ Commits(a, in) =>
                /\ b.rotation_radius_sq = AxisDistSq(a) /\ b.rotation_radius_sq >= MinSq
                /\ b.rotation_angular_speed.speed = rotation_speed
                /\ b.rotation_angular_speed.radius_sq = b.rotation_radius_sq
           /\ (Live(a) /\ a.state = "Moving" /\ ~a.mouse_pressed) =>
                b.angular_speed_per_frame * b.angular_speed_per_frame * AxisDistSq(a)
                  = (in.dt * min_orbit_radius) * (in.dt * min_orbit_radius)

\* a tracker on an orbit of twice the minimum radius turns by one quarter turn in
\* the time in which a tracker on the minimum orbit turns by two
C18_Witness ==
    \E in \in FrameInputs : \E i \in Trackers :
        /\ Live(arctracker_group[i]) /\ arctracker_group[i].state = "Moving"
        /\ ~arctracker_group[i].mouse_pressed
        /\ arctracker_group[i].rotation_radius_sq = 4 * MinSq
        /\ in.dt = 2
        /\ Abs(Updated(i, in).angular_speed_per_frame) = 1
        /\ QuarterTurns(AngularSpeed(MinSq), in.dt) = 2

\* C19: for the whole time a tracker is Moving, after every integration step
\* its position is at the distance rotation_radius from its rotation axis, with
\* axis and radius as fixed at the commit.
C19_MovingStaysOnCircle ==
    \A i \in Trackers :
        LET a == arctracker_group[i] IN
        (Live(a) /\ a.state = "Moving") =>
            /\ AxisDistSq(a) = a.rotation_radius_sq
            /\ \A in \in FrameInputs :
                  /\ AxisDistSq(Updated(i, in)) = a.rotation_radius_sq
                  /\ Updated(i, in).rotation_axis = a.rotation_axis
                  /\ Updated(i, in).rotation_radius_sq = a.rotation_radius_sq

\* a tracker Moving, away from where it started, moves on along its circle
C19_Witness ==
    \E in \in FrameInputs : \E i \in Trackers :
        /\ Live(arctracker_group[i]) /\ arctracker_group[i].state = "Moving"
        /\ arctracker_group[i].rect # arctracker_group[i].initial_pos
        /\ Updated(i, in).rect # arctracker_group[i].rect
        /\ AxisDistSq(Updated(i, in)) = arctracker_group[i].rotation_radius_sq

\* the sprite of the probe and circle c are closer than the sum of their radii
CirclesOverlap(c) ==
    DistSq(probe.sprite, c.center)
      < (c.radius + tracker_size \div 2) * (c.radius + tracker_size \div 2)

\* C20: the circle-versus-circle test (StaticCircularObstacle.collided, and
\* collide_with_circle of main.py for a group of circles) returns true exactly
\* when the distance between the two centres is strictly less than the sum of
\* the obstacle's radius and the tracker's radius: circles that exactly touch
\* do not collide.
C20_CircleTestStrict ==
    (verdict.done /\ probe.fn = "collide_with_circle") =>
        /\ \A c \in probe.group : verdict.collided[c] <=> CirclesOverlap(c)
        /\ verdict.collide_with_circle <=> \E c \in probe.group : CirclesOverlap(c)

\* a sprite that exactly touches the one circle of its group, off the axes,
\* and is found not to collide
C20_Witness ==
    /\ verdict.done
    /\ probe.fn = "collide_with_circle"
    /\ \E c \in probe.group :
          /\ probe.group = {c}
          /\ DistSq(probe.sprite, c.center)
               = (c.radius + tracker_size \div 2) * (c.radius + tracker_size \div 2)
          /\ probe.sprite[1] # c.center[1] /\ probe.sprite[2] # c.center[2]
          /\ ~verdict.collided[c] /\ ~verdict.collide_with_circle
\* the distance-to-nearest-point test: the point of the rectangle spr nearest
\* to the centre of the sprite's circle is no farther from it than the radius
NearestPointTest(sprite, spr) ==
    \E ex \in { Max0(Abs(sprite.rect[1] - spr.center[1]) - spr.w \div 2) } :
    \E ey \in { Max0(Abs(sprite.rect[2] - spr.center[2]) - spr.h \div 2) } :
        ex * ex + ey * ey <= (sprite.w \div 2) * (sprite.w \div 2)

\* the square of the distance from the centre of the sprite's circle to the
\* corner of the rectangle spr nearest to it
CornerDistSq(sprite, spr) ==
    (Abs(sprite.rect[1] - spr.center[1]) - spr.w \div 2)
        * (Abs(sprite.rect[1] - spr.center[1]) - spr.w \div 2)
    + (Abs(sprite.rect[2] - spr.center[2]) - spr.h \div 2)
        * (Abs(sprite.rect[2] - spr.center[2]) - spr.h \div 2)

\* the centre of the sprite's circle lies diagonally outside a corner of spr
DiagonallyOutside(sprite, spr) ==
    /\ Abs(sprite.rect[1] - spr.center[1]) > spr.w \div 2
    /\ Abs(sprite.rect[2] - spr.center[2]) > spr.h \div 2

\* C21: collide_with_rect returns what the distance-to-nearest-point test
\* returns: true exactly when some rectangle of the group has a point no
\* farther from the centre of the sprite's circle than the radius
C21_RectTestIsNearestPointTest ==
    (verdict.done /\ probe.fn = "collide_with_rect") =>
        ( verdict.collide_with_rect
            <=> \E c \in probe.group :
                    NearestPointTest(ProbeSprite(probe.sprite), RectOf(c)) )

\* C22: against one rectangle, a circle whose centre is diagonally outside a
\* corner does not collide when it is at exactly the radius from that corner
\* and collides when it is nearer than the radius
C22_CornerBoundaryStrict ==
    (verdict.done /\ probe.fn = "collide_with_rect") =>
        \A c \in probe.group :
            ( probe.group = {c}
              /\ DiagonallyOutside(ProbeSprite(probe.sprite), RectOf(c)) ) =>
                /\ CornerDistSq(ProbeSprite(probe.sprite), RectOf(c))
                      = (tracker_size \div 2) * (tracker_size \div 2)
                        => ~verdict.collide_with_rect
                /\ CornerDistSq(ProbeSprite(probe.sprite), RectOf(c))
                      < (tracker_size \div 2) * (tracker_size \div 2)
                        => verdict.collide_with_rect

\* C23: in every Level.update an AngleFollowerImageObstacle turns by the
\* negated angular_speed_per_frame its tracker integrated in that call, which
\* is zero when the tracker was not Moving or is level_complete; its angle is
\* the negated sum of these per-frame turns since the last initialize
C23_FollowerTurnsAgainstTracker ==
    current_levelnum # 0 =>
    \A k \in Followers(Layout) :
        /\ obstacle_group[k].current_angle = (0 - frame.turned) % 4
        /\ \A in \in FrameInputs :
            \A U \in { SpritesUpdate(Layout, Lvl, in, in, in.dt) } :
                /\ U.obstacle_group[k].current_angle
                     = (obstacle_group[k].current_angle
                          - following_at(Layout, k, U.arctracker_group)
                                .angular_speed_per_frame) % 4
                /\ ( \/ following_at(Layout, k, arctracker_group).state # "Moving"
                     \/ following_at(Layout, k, arctracker_group).level_complete )
                       => U.obstacle_group[k].current_angle
                            = obstacle_group[k].current_angle

\* the follower stands a quarter turn against the turn its tracker has made
\* since the last initialize, and the tracker is about to turn further
C23_Witness ==
    /\ now_display
    /\ \E k \in Followers(Layout) :
          /\ frame.turned = 1
          /\ obstacle_group[k].current_angle = 3
          /\ \E in \in FrameInputs :
                following_at(Layout, k,
                             SpritesUpdate(Layout, Lvl, in, in, in.dt).arctracker_group)
                    .angular_speed_per_frame = 1

\* frame is a Level.update in which the collision check reset the level, and
\* the level was not left in the same frame
CollisionFrame == frame.op = "update" /\ frame.collision_reset /\ now_display

\* C24 (as stated): after a Level.update in which a tracker collided, every
\* obstacle has the pose state (angle, image, position) it would have had
\* without the collision
C24_CollisionLeavesObstaclePose ==
    CollisionFrame => obstacle_group = frame.obstacles

\* C24 (amended): a collision moves no image, mask or rect of an obstacle, but
\* the reset of the level it causes puts the angle of a rotating obstacle back
\* to its initial angle, whatever the angle would have been without it
C24_CollisionResetsAngleKeepsImage ==
    CollisionFrame =>
        \A k \in 1..Len(obstacle_group) :
            /\ obstacle_group[k].shown_angle = frame.obstacles[k].shown_angle
            /\ obstacle_group[k].current_angle
                 = IF Layout.obstacle_list[k].kind = "RotatingRectangularObstacle"
                   THEN Layout.obstacle_list[k].initial_angle
                   ELSE IF Layout.obstacle_list[k].kind = "AngleFollowerImageObstacle"
                   THEN 0
                   ELSE frame.obstacles[k].current_angle

\* a collision after which the rotating obstacle is shown at one angle while
\* its angle is back at the initial one
C24_Witness ==
    /\ CollisionFrame
    /\ \E k \in 1..Len(obstacle_group) :
          /\ Layout.obstacle_list[k].kind = "RotatingRectangularObstacle"
          /\ frame.obstacles[k].current_angle # Layout.obstacle_list[k].initial_angle
          /\ obstacle_group[k].current_angle = Layout.obstacle_list[k].initial_angle
          /\ obstacle_group[k].shown_angle = frame.obstacles[k].current_angle

\* coin c is nearer than the capture distance to the rect centre of some
\* tracker or clone of level L
InCaptureRange(L, c) ==
    \E i \in 1..Len(L.arctracker_group) :
        DistSq(L.arctracker_group[i].rect, c)
          < coin_capture_distance * coin_capture_distance

\* the pickup check of the frame removed exactly the coins in capture range
\* and changed nothing else of the level
PickupExact ==
    frame.op = "update" =>
        /\ frame.pickup.after.coin_group
             = { c \in frame.pickup.before.coin_group :
                   ~InCaptureRange(frame.pickup.before, c) }
        /\ [ frame.pickup.after EXCEPT !.coin_group = frame.pickup.before.coin_group ]
             = frame.pickup.before

\* Level.initialize ran in the frame
InitializedInFrame ==
    \/ frame.op = "initialize"
    \/ frame.bounds_reset \/ frame.collision_reset \/ ~now_display

\* C25: the pickup check of every Level.update removes each coin nearer than
\* the capture distance to some tracker or clone and changes nothing else (no
\* reset, no tracker state or position); a coin that is gone stays gone in
\* every later frame in which Level.initialize does not run
C25_PickupRemovesOnlyCoins ==
    [][ /\ PickupExact'
        /\ InitializedInFrame' \/ coin_group' \subseteq coin_group ]_vars

\* a clone in motion, away from its start, has just taken a coin in a frame
\* without a reset
C25_Witness ==
    /\ frame.op = "update" /\ ~InitializedInFrame
    /\ frame.pickup.after.coin_group # frame.pickup.before.coin_group
    /\ \E i \in 1..Len(frame.pickup.after.arctracker_group) :
        \E a \in { frame.pickup.after.arctracker_group[i] } :
          /\ a.host # 0 /\ a.state = "Moving" /\ a.rect # a.initial_pos
          /\ \E c \in frame.pickup.before.coin_group :
                DistSq(a.rect, c) < coin_capture_distance * coin_capture_distance

\* C26: a clone that fixes its direction in Ready takes, for the same input,
\* the direction_factor an ArcTracker takes (the one its host takes when it
\* commits in the same frame) if its move_opposite_direction is false, and
\* the negated one if it is true
C26_CloneDirectionFollowsHost ==
    \A in \in FrameInputs : \A i \in Trackers :
        \A a \in { arctracker_group[i] } :
            (a.host # 0 /\ Commits(a, in)) =>
                \A b \in { Updated(i, in) } :
                    /\ b.direction_factor
                         = (IF a.move_opposite_direction THEN -1 ELSE 1)
                             * (IF in.LCLICK THEN -1 ELSE 1)
                    /\ Commits(arctracker_group[a.host], in) =>
                          b.direction_factor
                            = (IF a.move_opposite_direction THEN -1 ELSE 1)
                                * Updated(a.host, in).direction_factor

\* an opposite clone and its host have fixed their directions in the same
\* frame and hold opposite signs
C26_Witness ==
    /\ frame.op = "update"
    /\ \E i \in Trackers :
        \E a \in { arctracker_group[i] } :
          /\ a.host # 0 /\ a.move_opposite_direction
          /\ a.state = "ready" /\ a.mouse_pressed
          /\ arctracker_group[a.host].state = "ready"
          /\ arctracker_group[a.host].mouse_pressed
          /\ a.direction_factor = 0 - arctracker_group[a.host].direction_factor

\* clone a, not level_complete and in Idle, is dragging in a frame with input
\* snapshot in: the primary button is pressed, held or released in it
CloneDrags(a, in) ==
    /\ a.host # 0 /\ Live(a) /\ a.state = "idle"
    /\ a.mouse_pressed \/ in.LCLICK

\* the axis of clone a for the cursor of snapshot in: the clone's centre moved
\* by the offset of the cursor from the centre of its host
HostRelativeAxis(a, in) ==
    << a.rect[1] + in.CURPOS[1] - arctracker_group[a.host].rect[1],
       a.rect[2] + in.CURPOS[2] - arctracker_group[a.host].rect[2] >>

\* C27: in every frame in which a clone is dragging, from the press to the
\* release, its rotation_axis is its own centre moved by the offset of that
\* frame's cursor from its host's centre; in particular the axis it enters
\* Ready with is this value for the cursor of the release frame
C27_CloneAxisIsHostRelative ==
    \A in \in FrameInputs : \A i \in Trackers :
        CloneDrags(arctracker_group[i], in) =>
            Updated(i, in).rotation_axis = HostRelativeAxis(arctracker_group[i], in)

\* C28: when Level.update returns, a clone and its host that are both not
\* level_complete are in the same state with the same button latch
C28_CloneInStepWithHost ==
    frame.op = "update" =>
        \A i \in 1..Len(frame.level.arctracker_group) :
            \A a \in { frame.level.arctracker_group[i] } :
                (a.host # 0 /\ Live(a) /\ Live(frame.level.arctracker_group[a.host])) =>
                    /\ a.state = frame.level.arctracker_group[a.host].state
                    /\ a.mouse_pressed = frame.level.arctracker_group[a.host].mouse_pressed

\* C29: a frame in which some tracker rejects an orbit makes
\* GamePlayScreen.update create exactly one PopupTextBox, a frame without a
\* rejection makes it create none, and after every frame raise_popup is false
\* on every tracker
C29_OnePopupPerRejectionFrame ==
    frame.op = "update" =>
        /\ frame.rejected # {} => frame.popups = 1
        /\ frame.rejected = {} => frame.popups = 0
        /\ \A i \in Trackers : ~arctracker_group[i].raise_popup

\* C30: over a frame the (x_pos, y_pos) of a tracker changes only if the
\* tracker entered the frame in Moving and not level_complete, or if
\* Level.initialize ran in the frame and put it back on its start position;
\* no update in Idle or Ready moves it, whatever the mouse and the keys
C30_PositionMovesOnlyInMoving ==
    [][ frame'.op = "update" =>
          \A i \in Trackers :
              << arctracker_group'[i].x_pos, arctracker_group'[i].y_pos >>
                  # << arctracker_group[i].x_pos, arctracker_group[i].y_pos >>
              => \/ Live(arctracker_group[i]) /\ arctracker_group[i].state = "Moving"
                 \/ /\ InitializedInFrame'
                    /\ << arctracker_group'[i].x_pos, arctracker_group'[i].y_pos >>
                         = arctracker_group[i].initial_pos ]_vars

\* a tracker that has moved away from its start, was stopped, and has since
\* been dragged into Ready and had its direction fixed without moving
C30_Witness ==
    /\ frame.op = "update" /\ ~InitializedInFrame
    /\ \E i \in Trackers :
          /\ Live(arctracker_group[i])
          /\ arctracker_group[i].state = "ready" /\ arctracker_group[i].mouse_pressed
          /\ << arctracker_group[i].x_pos, arctracker_group[i].y_pos >>
               # arctracker_group[i].initial_pos
          /\ frame.sprites[i].state = "ready"

\* C31: when Level.update returns, a tracker or clone has a borderline and an
\* axis marker exactly when it is Idle with the latch set and not
\* level_complete, and a tracker the goal check has locked has no path, no
\* borderline and no axis marker
C31_GuidesIffIdleDragging ==
    frame.op = "update" =>
        \A i \in 1..Len(frame.level.arctracker_group) :
            \A a \in { frame.level.arctracker_group[i] } :
                /\ (a.borderline /\ a.axis_marker)
                     <=> (a.state = "idle" /\ a.mouse_pressed /\ ~a.level_complete)
                /\ a.borderline <=> a.axis_marker
                /\ a.level_complete => (~a.path /\ ~a.borderline /\ ~a.axis_marker)

\* C32: operate() runs exactly on the frame the primary button is released
\* after a press that went down while the cursor was inside the rect of the
\* active button, once, and on no other frame; a press that began outside
\* the button never runs it
C32_OperateOnlyOnClickStartedInside ==
    button.active =>
        /\ button.operated <= 1
        /\ button.operated = 1
             <=> (~button.lclick /\ button.was_down /\ button.started_inside)

\* C33: no tracker or clone is ever in a state whose update would use a
\* preview object that is missing: a Ready tracker, and a Moving tracker with
\* the latch unset, has its path; an Idle tracker with the latch set that is
\* not level_complete has its borderline and axis marker; no update failed
C33_PreviewObjectsPresent ==
    \A i \in 1..Len(arctracker_group) :
        \A a \in { arctracker_group[i] } :
            /\ ~a.error
            /\ (a.state = "ready" \/ (a.state = "Moving" /\ ~a.mouse_pressed)) => a.path
            /\ (a.state = "idle" /\ a.mouse_pressed /\ ~a.level_complete)
                    => (a.borderline /\ a.axis_marker)

\* a tracker turns with its path shown, the latch unset, after a frame update
C33_Witness ==
    /\ frame.op = "update"
    /\ \E i \in 1..Len(arctracker_group) :
          /\ arctracker_group[i].state = "Moving"
          /\ ~arctracker_group[i].mouse_pressed
          /\ arctracker_group[i].path

\* Level.update of level lv in state L with input snapshot in
LevelUpdate(lv, L, in) ==
    ClearedCheck(GoalCheck(lv, CoinCheck(CollisionCheck(lv,
        BoundsCheck(lv, SpritesUpdate(lv, L, in, in, in.dt)), 1)), 1, 1))

\* C34: once the level is cleared, every further Level.update, whatever the
\* input and whatever the obstacles, leaves it cleared (only an initialize
\* called from outside the level, on retry, next level or quit, resets it)
C34_ClearedStaysCleared ==
    cleared => \A in \in FrameInputs : LevelUpdate(Layout, Lvl, in).cleared

\* the trackers and clones that are level_complete
Completed == { i \in 1..Len(arctracker_group) : arctracker_group[i].level_complete }

\* the goals that are arctracker_matched
Matched == { g \in 1..Len(goal_group) : goal_group[g] }

\* C35: in every state of the level at most as many trackers and clones are
\* level_complete as goals are matched; so a level with fewer goals than
\* trackers and clones is never cleared
C35_CompleteAtMostMatched ==
    /\ Cardinality(Completed) <= Cardinality(Matched)
    /\ Len(goal_group) < Len(arctracker_group) => ~cleared

\* the one goal of a layout with a tracker and a clone is taken
C35_Witness ==
    /\ Len(goal_group) < Len(arctracker_group)
    /\ Cardinality(Completed) = 1
    /\ Cardinality(Matched) = 1

\* the level after one frame of GamePlayScreen.update with input snapshot in
\* (q not pressed): Level.update, then the popup handling
FrameUpdate(lv, L, in) == ScreenPopup(LevelUpdate(lv, L, in))

\* tracker i is Idle or Ready in level state L with the latch unset
AwaitsButton(L, i) ==
    /\ L.arctracker_group[i].state \in { "idle", "ready" }
    /\ ~L.arctracker_group[i].mouse_pressed
    /\ ~L.arctracker_group[i].level_complete

\* C36: the button actions of a tracker are edge-triggered: in a frame whose
\* snapshot repeats the one of the frame before (no button went from up to
\* down), a tracker that ended the earlier frame Idle or Ready with the latch
\* unset starts no drag and fixes no direction, so a button already held
\* when the tracker entered Idle or Ready does nothing by itself
C36_ButtonActionsEdgeTriggered ==
    \A in \in FrameInputs :
        \A L1 \in { FrameUpdate(Layout, Lvl, in) } :
            \A i \in Trackers :
                (AwaitsButton(L1, i) /\ Representable(L1.arctracker_group, in.dt))
                    => ~SpritesUpdate(Layout, L1, in, in, in.dt).arctracker_group[i].mouse_pressed

\* C37: after a frame of GamePlayScreen.update in which a tracker or clone
\* raised radius-too-small, every tracker and clone is Idle without a path;
\* and after every frame the trackers and clones that are not level_complete
\* are all in the same state
C37_RejectionLeavesAllIdle ==
    frame.op = "update" =>
        /\ frame.rejected # {} =>
              \A i \in Trackers :
                  arctracker_group[i].state = "idle" /\ ~arctracker_group[i].path
        /\ \A i \in Trackers : \A j \in Trackers :
              (~arctracker_group[i].level_complete /\ ~arctracker_group[j].level_complete)
                  => arctracker_group[i].state = arctracker_group[j].state

\* a frame in which the host's radius was too small and the clone's was not:
\* Level.update returned with the clone Ready, the popup handling ran
C37_Witness ==
    /\ frame.op = "update"
    /\ frame.rejected # {}
    /\ frame.popups = 1
    /\ \E i \in 1..Len(frame.level.arctracker_group) :
          frame.level.arctracker_group[i].state = "ready"

\* C38: GamePlayScreen.intialize_level is only called with a key of
\* level_dict, whatever buttons are operated (after the last level's NEXT
\* LEVEL too): the level number of the screen is always a key of level_dict
\* once a level was chosen, and no lookup fails
C38_LevelNumberIsKey ==
    current_levelnum # 0 => current_levelnum \in DOMAIN level_dict

\* C39: every PopupTextBox the screen made is killed and taken out of
\* manage_list: after every frame manage_list holds at most one popup, no
\* popup that was killed, and the level (a second rejection while an earlier
\* popup is shown included)
C39_PopupsLeaveManageList ==
    /\ Cardinality(Listed(screen.manage_list)) <= 1
    /\ \A k \in Listed(screen.manage_list) : screen.popups[screen.manage_list[k].id].alive
    /\ \E k \in 1..Len(screen.manage_list) : screen.manage_list[k].kind = "Level"

\* C40: in the ArcTracker of main.py the radius that rotation_speed is
\* divided by, when a direction is fixed in Ready, is never zero, whatever
\* the mouse did (a drag released on the tracker's own position included)
C40_RadiusNeverZero ==
    (arc_tracker.state = "ready" /\ arc_tracker.mouse_pressed)
        => arc_tracker.rotation_radius_sq > 0

===========================================================================
